---- MODULE Spec2Model ----
(***************************************************************************)
(* Connection & authentication engine of the maximus client.               *)
(*                                                                         *)
(* The program is a set of asyncio tasks on one cooperative scheduler:     *)
(*   - the main task: MaxClient.start() -> MaxConnection.connect() ->      *)
(*     AuthManager.authenticate() -> _sync_after_auth(), followed by       *)
(*     run_until_disconnected() and its _reconnect();                      *)
(*   - one listen task per connect() (asyncio.create_task(self._listen())),*)
(*     which runs the AuthManager handlers inside its own dispatch.        *)
(* An action is the code a task runs between two suspension points (a      *)
(* transport send or receive, a sleep, a wait on a future).                *)
(* SessionManager.save() holds no suspension point, so `await save()` does *)
(* not yield to the scheduler.                                             *)
(* The remote server is the environment: it may send any frame of InFrames *)
(* and may close the socket at any time.                                   *)
(*                                                                         *)
(* Two parts of the program that hold no state of the engine are specified *)
(* on their own: the event registry (RegistrySpec) and the encoding and    *)
(* decoding of a frame (CodecSpec).                                        *)
(***************************************************************************)
EXTENDS Integers, Sequences, FiniteSets, TLC

VARIABLES
    session,        \* SessionManager._data, the keys "token" and "phone"
    seq,            \* MaxConnection._seq
    connected,      \* WebSocketConnection._is_connected
    sock,           \* the websocket itself: "none", "open" or "closed"
    conn,           \* number of transport opens so far (the connection lifetime)
    auth_future,    \* AuthManager._auth_future: 0 (None) or an index of futures
    futures,        \* the asyncio.Future objects created so far, by state
    phone_,         \* AuthManager._phone
    code_callback,  \* AuthManager._code_callback
    dm,             \* DataManager: is the current user set, is chat 0 known
    pc,             \* the main task's suspension point
    ctx,            \* the caller of connect(): "start" or "reconnect"
    arg,            \* the arguments of start(phone, code_callback)
    a_token,        \* the local `token` of authenticate() / _reconnect()
    a_fut,          \* the future the main task awaits
    m_exc,          \* the exception that left start(), "none" if none
    lpc,            \* listen task -> its suspension point
    l_fut,          \* listen task -> the future its handler awaits
    l_frame,        \* listen task -> the inbound frame its handlers are running for
    l_exc,          \* listen task -> the last exception a handler raised into _listen
    rcvd,           \* inbound frames received so far
    acked,          \* while authenticate() runs: an auth_success was dispatched
                    \*   after it sent its last frame
    trace,          \* task -> the store operations and sends of the operation
                    \*   it is running (authenticate(), a handler, ...), in order
    wire,           \* the seq of each frame the transport accepted in the
                    \*   current connection lifetime, in order
    disp,           \* what the step that led here received from the transport
                    \*   and dispatched, NoDisp if it received nothing
    ops,            \* what the handlers that ran to their end within that step
                    \*   did to the store and to the pending operation, in order,
                    \*   what the code provider returned, and how a save() ended
    event_handlers, \* EventDispatcher._event_handlers: event name -> handler list
    dispatching,    \* the dispatch_event() call in progress and what it invoked
    reg_op,         \* the last call made on the EventDispatcher
    codec           \* one frame on its way through _send and _listen

vars == <<session, seq, connected, sock, conn, auth_future, futures, phone_,
          code_callback, dm, pc, ctx, arg, a_token, a_fut, m_exc,
          lpc, l_fut, l_frame, l_exc, rcvd, acked, trace, wire, disp, ops,
          event_handlers, dispatching, reg_op, codec>>

engineVars == <<session, seq, connected, sock, conn, auth_future, futures, phone_,
                code_callback, dm, pc, ctx, arg, a_token, a_fut, m_exc,
                lpc, l_fut, l_frame, l_exc, rcvd, acked, trace, wire, disp, ops>>
auxVars == <<event_handlers, dispatching, reg_op, codec>>

connVars == <<seq, connected, sock, conn>>
authVars == <<auth_future, futures, phone_, code_callback>>
mainVars == <<pc, ctx, arg, a_token, a_fut, m_exc>>
listenVars == <<lpc, l_fut, l_frame, l_exc>>
ghostVars == <<trace, wire>>

---------------------------------------------------------------------------
(* Bounds of the model *)

MaxSeq == 7         \* sends are cut off once the sequence counter reaches this
MaxInbound == 3     \* inbound frames the server sends in one run
MaxConn == 2        \* transport opens in one run

(* Program constants *)

DEFAULT_CHATS_COUNT == 40

None == "none"
Phones == {"P1"}
Listeners == 1..MaxConn
Main == 0
Tasks == {Main} \cup Listeners

---------------------------------------------------------------------------
(* Outbound frames: MaxConnection.send_* and _create_message *)

NoPayload ==
    [token |-> None, phone |-> None, interactive |-> FALSE, events |-> 0,
     code |-> None, chatsCount |-> 0]

init_payload == NoPayload
auth_token_payload(token, interactive, chats_count) ==
    [NoPayload EXCEPT !.token = token, !.interactive = interactive,
                      !.chatsCount = chats_count]
auth_start_payload(phone) == [NoPayload EXCEPT !.phone = phone]
auth_code_payload(token, verify_code) ==
    [NoPayload EXCEPT !.token = token, !.code = verify_code]
events_payload(events) == [NoPayload EXCEPT !.events = Len(events)]
get_payload == NoPayload

navigation_events == <<"COLD_START", "GO">>

(* Variant: a _create_message that advances the counter by two *)
create_message_skip(opcode, payload) ==
    [cmd |-> 0, seq |-> seq + 2, opcode |-> opcode, payload |-> payload]

(* MaxConnection._create_message, lines 277-286: self._seq += 1 *)
create_message(opcode, payload) ==
    [cmd |-> 0, seq |-> seq + 1, opcode |-> opcode, payload |-> payload]

(* What a recording store and a recording transport see *)
NoFrame == [cmd |-> 0, seq |-> 0, opcode |-> 0, payload |-> NoPayload]
SetEntry(by, key, value) ==
    [kind |-> "set", by |-> by, key |-> key, value |-> value, frame |-> NoFrame,
     ok |-> TRUE]
SaveEntry(by) ==
    [kind |-> "save", by |-> by, key |-> None, value |-> None, frame |-> NoFrame,
     ok |-> TRUE]
SendEntry(by, frame, ok) ==
    [kind |-> "send", by |-> by, key |-> None, value |-> None, frame |-> frame,
     ok |-> ok]

(* WebSocketConnection.send succeeds iff the flag is set and the socket is open *)
SendOk == connected /\ sock = "open"

(* Variant: a send that fails without marking the transport lost *)
TransmitKeepsFlag(t, old, pre, by, opcode, payload) ==
    /\ seq < MaxSeq
    /\ seq' = create_message(opcode, payload).seq
    /\ trace' = [trace EXCEPT ![t] = old \o pre \o
                    <<SendEntry(by, create_message(opcode, payload), SendOk)>>]
    /\ wire' = IF SendOk
                THEN Append(wire, create_message(opcode, payload).seq)
                ELSE wire
    /\ connected' = connected

(* Task t runs MaxConnection._send(_create_message(opcode, payload)), after *)
(* the store operations `pre` of the same atomic step; `old` is what the    *)
(* task's operation did before.  The frame is handed to the transport; a    *)
(* failed send (ConnectionError) has consumed its sequence number, puts     *)
(* nothing on the wire and leaves the flag false.                           *)
Transmit(t, old, pre, by, opcode, payload) ==
    /\ seq < MaxSeq
    /\ seq' = create_message(opcode, payload).seq
    /\ trace' = [trace EXCEPT ![t] = old \o pre \o
                    <<SendEntry(by, create_message(opcode, payload), SendOk)>>]
    /\ wire' = IF SendOk
                THEN Append(wire, create_message(opcode, payload).seq)
                ELSE wire
    /\ connected' = SendOk

(* every send_* operation ends with `return self._seq`, read when the task  *)
(* resumes from `await self._send(message)`                                 *)
send_return == seq

---------------------------------------------------------------------------
(* Futures *)

NewFuture == Len(futures) + 1
Pending(f) == f # 0 /\ futures[f] = "pending"

(* Variant: a handler that sets the outcome without asking done() *)
ResolveDone(outcome) ==
    IF auth_future # 0
      THEN [futures EXCEPT ![auth_future] = outcome]
      ELSE futures

(* `if self._auth_future and not self._auth_future.done(): set_...` *)
Resolve(outcome) ==
    IF Pending(auth_future)
      THEN [futures EXCEPT ![auth_future] = outcome]
      ELSE futures

(* What a recording future sees: set_result(value) or set_exception(        *)
(* AuthError(value)), made only when the guard above lets it through.        *)
ResolveEntry(by, outcome, value) ==
    [kind |-> "resolve", by |-> by, key |-> outcome, value |-> value,
     frame |-> NoFrame, ok |-> TRUE]
(* SessionManager.save(), lines 51-62: writing the file may fail with       *)
(* PermissionError or OSError, which save() catches and prints; `saved`     *)
(* says whether the file was written.                                       *)
SaveOutcome(by, saved) == [SaveEntry(by) EXCEPT !.ok = saved]
(* the code provider was called and returned `code` *)
CallEntry(by, code) ==
    [kind |-> "call", by |-> by, key |-> None, value |-> code,
     frame |-> NoFrame, ok |-> TRUE]
ResolveOps(by, outcome, value) ==
    IF Pending(auth_future) THEN <<ResolveEntry(by, outcome, value)>> ELSE <<>>

---------------------------------------------------------------------------
(* Inbound frames *)

NoIn == [token |-> None, error |-> None, message |-> None, profile |-> FALSE,
         chat0 |-> FALSE, login_token |-> None]

NoInFrame == [cmd |-> 0, opcode |-> 0, payload |-> NoIn]

InFrames ==
    {[cmd |-> 1, opcode |-> 19,
      payload |-> [NoIn EXCEPT !.token = d[1], !.profile = d[2], !.chat0 = d[3]]] :
        d \in {<<None, FALSE, FALSE>>, <<None, TRUE, FALSE>>, <<None, TRUE, TRUE>>,
               <<"T2", FALSE, FALSE>>, <<"T2", TRUE, TRUE>>}}
    \cup {[cmd |-> 1, opcode |-> 17, payload |-> [NoIn EXCEPT !.token = "V1"]]}
    \cup {[cmd |-> 1, opcode |-> 18, payload |-> [NoIn EXCEPT !.login_token = t]] :
            t \in {None, "T2"}}
    \cup {[cmd |-> 3, opcode |-> 19,
           payload |-> [NoIn EXCEPT !.error = e[1], !.message = e[2]]] :
            e \in {<<"login.token", "m">>, <<"e", "FAIL_LOGIN_TOKEN">>, <<"e", "m">>}}
    \cup {[cmd |-> 3, opcode |-> 17,
           payload |-> [NoIn EXCEPT !.error = "error.limit.violate"]]}
    \cup {[cmd |-> c[1], opcode |-> c[2], payload |-> NoIn] :
            c \in {<<0, 128>>, <<1, 48>>, <<2, 19>>, <<1, 128>>}}

Codes == {"", "C1"}

(* One receive of _listen: the task `by` got a message from the transport;  *)
(* `decoded` says whether json.loads accepted it, `frame` is the decoded    *)
(* frame (cmd, opcode, the tokens and the error fields of its payload),     *)
(* `event` the                                                              *)
(* name whose handlers ran (None: no handler), and `bad`                    *)
(* the number of undecodable messages the task got just before this one.    *)
Header(f) ==
    [f EXCEPT !.payload = [NoIn EXCEPT !.token = f.payload.token,
                                        !.login_token = f.payload.login_token,
                                        !.error = f.payload.error,
                                        !.message = f.payload.message]]
NoDisp == [by |-> 0, decoded |-> FALSE, frame |-> NoInFrame, event |-> None,
           bad |-> 0]
Bad(l) == IF disp.by = l /\ ~disp.decoded THEN disp.bad ELSE 0

(* Variant: a routing that sends (cmd 3, opcode 17) to the auth_error handlers *)
EventNameShared(cmd, opcode) ==
    IF cmd = 1 THEN
        CASE opcode = 19 -> "auth_success"
          [] opcode = 17 -> "auth_code_requested"
          [] opcode = 18 -> "auth_code_checked"
          [] opcode = 64 -> "message_sent"
          [] opcode = 32 -> "contacts_update"
          [] opcode = 48 -> "chats_update"
          [] OTHER -> None
    ELSE IF cmd = 3 THEN
        CASE opcode = 19 -> "auth_error"
          [] opcode = 17 -> "auth_error"
          [] OTHER -> None
    ELSE IF cmd = 0 THEN
        CASE opcode = 128 -> "new_message"
          [] OTHER -> None
    ELSE None

(* MaxConnection._handle_message, lines 354-376 *)
EventName(cmd, opcode) ==
    IF cmd = 1 THEN
        CASE opcode = 19 -> "auth_success"
          [] opcode = 17 -> "auth_code_requested"
          [] opcode = 18 -> "auth_code_checked"
          [] opcode = 64 -> "message_sent"
          [] opcode = 32 -> "contacts_update"
          [] opcode = 48 -> "chats_update"
          [] OTHER -> None
    ELSE IF cmd = 3 THEN
        CASE opcode = 19 -> "auth_error"
          [] opcode = 17 -> "auth_code_error"
          [] OTHER -> None
    ELSE IF cmd = 0 THEN
        CASE opcode = 128 -> "new_message"
          [] OTHER -> None
    ELSE None

---------------------------------------------------------------------------
(* Python values and JSON documents.  A Python value is tagged with its     *)
(* type; a dict is the sequence of its (key, value) pairs in insertion      *)
(* order.  A JSON document is the tree that the text denotes.               *)

PyInt(n) == [t |-> "int", v |-> n]
PyStr(x) == [t |-> "str", v |-> x]
PyBool(b) == [t |-> "bool", v |-> b]
PyNone == [t |-> "NoneType", v |-> 0]
PyList(xs) == [t |-> "list", v |-> xs]
PyTuple(xs) == [t |-> "tuple", v |-> xs]
PyDict(kvs) == [t |-> "dict", v |-> kvs]

JNull == [t |-> "null", v |-> 0]

(* json.dumps turns a dict key that is not a str into its text *)
key_text(k) ==
    CASE k.t = "str" -> k.v
      [] k.t = "int" -> ToString(k.v)
      [] k.t = "bool" -> IF k.v THEN "true" ELSE "false"
      [] OTHER -> "null"

(* json.dumps, as _send calls it (line 290) *)
RECURSIVE json_dumps(_)
json_dumps(x) ==
    CASE x.t = "int" -> [t |-> "number", v |-> x.v]
      [] x.t = "str" -> [t |-> "string", v |-> x.v]
      [] x.t = "bool" -> [t |-> IF x.v THEN "true" ELSE "false", v |-> 0]
      [] x.t \in {"list", "tuple"} ->
            [t |-> "array", v |-> [i \in 1..Len(x.v) |-> json_dumps(x.v[i])]]
      [] x.t = "dict" ->
            [t |-> "object",
             v |-> [i \in 1..Len(x.v) |->
                      <<key_text(x.v[i][1]), json_dumps(x.v[i][2])>>]]
      [] OTHER -> JNull

(* d[k] = v on a dict: a key that is there keeps its place *)
dict_set(kvs, k, v) ==
    IF \E i \in 1..Len(kvs) : kvs[i][1] = k
      THEN [i \in 1..Len(kvs) |-> IF kvs[i][1] = k THEN <<k, v>> ELSE kvs[i]]
      ELSE Append(kvs, <<k, v>>)

(* dict.get(key, default) *)
dict_get(d, key, default) ==
    IF \E i \in 1..Len(d.v) : d.v[i][1] = PyStr(key)
      THEN d.v[CHOOSE i \in 1..Len(d.v) : d.v[i][1] = PyStr(key)][2]
      ELSE default

(* Variant: a json.loads that builds a tuple from an array *)
RECURSIVE json_loads_tuples(_)
json_loads_tuples(j) ==
    LET RECURSIVE pairs(_)
        pairs(n) ==
            IF n = 0 THEN <<>>
            ELSE dict_set(pairs(n - 1), PyStr(j.v[n][1]), json_loads_tuples(j.v[n][2]))
    IN CASE j.t = "number" -> PyInt(j.v)
         [] j.t = "string" -> PyStr(j.v)
         [] j.t = "true" -> PyBool(TRUE)
         [] j.t = "false" -> PyBool(FALSE)
         [] j.t = "array" ->
               PyTuple([i \in 1..Len(j.v) |-> json_loads_tuples(j.v[i])])
         [] j.t = "object" -> PyDict(pairs(Len(j.v)))
         [] OTHER -> PyNone

(* json.loads, as _listen calls it (line 328): an array becomes a list, an  *)
(* object a dict with str keys, of which a repeated one keeps its last      *)
(* value                                                                    *)
RECURSIVE json_loads(_)
json_loads(j) ==
    LET RECURSIVE pairs(_)
        pairs(n) ==
            IF n = 0 THEN <<>>
            ELSE dict_set(pairs(n - 1), PyStr(j.v[n][1]), json_loads(j.v[n][2]))
    IN CASE j.t = "number" -> PyInt(j.v)
         [] j.t = "string" -> PyStr(j.v)
         [] j.t = "true" -> PyBool(TRUE)
         [] j.t = "false" -> PyBool(FALSE)
         [] j.t = "array" -> PyList([i \in 1..Len(j.v) |-> json_loads(j.v[i])])
         [] j.t = "object" -> PyDict(pairs(Len(j.v)))
         [] OTHER -> PyNone

(* The payload dicts that the send_* methods and _initialize build *)
Ints(xs) == [i \in 1..Len(xs) |-> PyInt(xs[i])]
OptStr(x) == IF x = None THEN PyNone ELSE PyStr(x)

user_agent_dict ==
    PyDict(<< <<PyStr("deviceType"), PyStr("ANDROID")>>,
              <<PyStr("locale"), PyStr("ru")>>,
              <<PyStr("deviceLocale"), PyStr("ru")>>,
              <<PyStr("osVersion"), PyStr("Windows")>>,
              <<PyStr("deviceName"), PyStr("Chrome")>>,
              <<PyStr("headerUserAgent"), PyStr("")>>,
              <<PyStr("appVersion"), PyStr("25.12.3")>>,
              <<PyStr("screen"), PyStr("1080x1920 1.0x")>>,
              <<PyStr("timezone"), PyStr("Europe/Moscow")>> >>)
init_dict(device_id) ==
    PyDict(<< <<PyStr("userAgent"), user_agent_dict>>,
              <<PyStr("deviceId"), PyStr(device_id)>> >>)
events_dict(time) ==
    PyDict(<< <<PyStr("events"),
                PyList(<< PyDict(<< <<PyStr("type"), PyStr("COLD_START")>>,
                                    <<PyStr("time"), PyInt(time)>> >>),
                          PyDict(<< <<PyStr("type"), PyStr("GO")>>,
                                    <<PyStr("page"), PyInt(1)>>,
                                    <<PyStr("time"), PyInt(time)>> >>) >>)>> >>)
auth_start_dict(phone) ==
    PyDict(<< <<PyStr("phone"), PyStr(phone)>>,
              <<PyStr("type"), PyStr("START_AUTH")>>,
              <<PyStr("language"), PyStr("ru")>> >>)
auth_code_dict(token, verify_code) ==
    PyDict(<< <<PyStr("token"), OptStr(token)>>,
              <<PyStr("verifyCode"), PyStr(verify_code)>>,
              <<PyStr("authTokenType"), PyStr("CHECK_CODE")>> >>)
auth_token_dict(token, interactive, chats_count) ==
    PyDict(<< <<PyStr("interactive"), PyBool(interactive)>>,
              <<PyStr("token"), PyStr(token)>>,
              <<PyStr("chatsCount"), PyInt(chats_count)>>,
              <<PyStr("chatsSync"), PyInt(0)>>,
              <<PyStr("contactsSync"), PyInt(0)>>,
              <<PyStr("presenceSync"), PyInt(0)>>,
              <<PyStr("draftsSync"), PyInt(0)>> >>)
get_chats_dict(chat_ids) == PyDict(<< <<PyStr("chatIds"), PyList(Ints(chat_ids))>> >>)
get_contacts_dict(contact_id_list) ==
    PyDict(<< <<PyStr("contactIds"), PyList(Ints(contact_id_list))>> >>)
message_dict(chat_id, text, cid, reply_to) ==
    PyDict(<< <<PyStr("chatId"), PyInt(chat_id)>>,
              <<PyStr("message"),
                PyDict(<< <<PyStr("text"), PyStr(text)>>,
                          <<PyStr("cid"), PyInt(cid)>>,
                          <<PyStr("elements"), PyList(<<>>)>>,
                          <<PyStr("attaches"), PyList(<<>>)>> >>
                       \o (IF reply_to # None
                             THEN << <<PyStr("replyTo"), PyStr(reply_to)>> >>
                             ELSE <<>>))>>,
              <<PyStr("notify"), PyBool(TRUE)>> >>)
reaction_dict(chat_id, message_id) ==
    PyDict(<< <<PyStr("chatId"), PyInt(chat_id)>>,
              <<PyStr("messageId"), PyStr(message_id)>>,
              <<PyStr("reaction"),
                PyDict(<< <<PyStr("reactionType"), PyStr("EMOJI")>>,
                          <<PyStr("id"), PyStr("+1")>> >>)>> >>)
delete_dict(chat_id, message_id) ==
    PyDict(<< <<PyStr("chatId"), PyInt(chat_id)>>,
              <<PyStr("messageId"), PyStr(message_id)>> >>)

(* The (opcode, payload) pairs of the sender *)
IdLists == {<<>>, <<0>>, <<0, 7>>}
OutFrames ==
    {<<6, init_dict(d)>> : d \in {"", "D1"}}
    \cup {<<5, events_dict(n)>> : n \in {0, 1500}}
    \cup {<<17, auth_start_dict(p)>> : p \in Phones}
    \cup {<<18, auth_code_dict(t, c)>> : t \in {None, "V1"}, c \in {"C1"}}
    \cup {<<19, auth_token_dict(t, i, DEFAULT_CHATS_COUNT)>> :
            t \in {"T1", "T2"}, i \in BOOLEAN}
    \cup {<<48, get_chats_dict(ids)>> : ids \in IdLists}
    \cup {<<32, get_contacts_dict(ids)>> : ids \in IdLists}
    \cup {<<64, message_dict(c, x, 1500, r)>> :
            c \in {0, 7}, x \in {"", "hi"}, r \in {None, "m1"}}
    \cup {<<178, reaction_dict(c, "m1")>> : c \in {0, 7}}
    \cup {<<22, delete_dict(c, "m1")>> : c \in {0, 7}}

(* MaxConnection._create_message, lines 277-286, as the dict it returns *)
message_dict_of(opcode, payload) ==
    PyDict(<< <<PyStr("ver"), PyInt(11)>>,
              <<PyStr("cmd"), PyInt(0)>>,
              <<PyStr("seq"), PyInt(create_message(opcode, NoPayload).seq)>>,
              <<PyStr("opcode"), PyInt(opcode)>>,
              <<PyStr("payload"), payload>> >>)

NoOut == [cmd |-> PyNone, opcode |-> PyNone, payload |-> PyNone]
CodecIdle == [stage |-> "idle", opcode |-> 0, payload |-> PyNone,
              message |-> PyNone, data |-> JNull, parsed |-> PyNone,
              out |-> NoOut]

(* The event registry at rest, and no call made on it yet *)
NoDispatch == [state |-> "idle", event |-> None, idx |-> 0, running |-> None,
               calls |-> <<>>, at_start |-> <<>>, mutated |-> FALSE]
NoCall == [n |-> 0, op |-> None, event |-> None, handler |-> None]

---------------------------------------------------------------------------
(* MaxClient.start(phone, code_callback) has loaded the session, built the  *)
(* MaxConnection and the AuthManager, and is suspended in connect().  A     *)
(* phone comes with a code callback; the callback may return no code        *)
(* (Codes), which has the effect of an absent callback, and the token path  *)
(* never stores the callback.                                               *)
EngineInit ==
    /\ session \in [token : {None, "T1"}, phone : {None}]
    /\ seq = 0
    /\ connected = FALSE
    /\ sock = "none"
    /\ conn = 0
    /\ auth_future = 0
    /\ futures = <<>>
    /\ phone_ = None
    /\ code_callback = None
    /\ dm = [user |-> FALSE, chat0 |-> FALSE]
    /\ pc = "connecting"
    /\ ctx = "start"
    /\ arg \in {[phone |-> None, code_callback |-> None]}
               \cup [phone : Phones, code_callback : {"cb"}]
    /\ a_token = None
    /\ a_fut = 0
    /\ m_exc = None
    /\ lpc = [l \in Listeners |-> "none"]
    /\ l_fut = [l \in Listeners |-> 0]
    /\ l_exc = [l \in Listeners |-> None]
    /\ l_frame = [l \in Listeners |-> NoInFrame]
    /\ rcvd = 0
    /\ acked = FALSE
    /\ trace = [t \in Tasks |-> <<>>]
    /\ wire = <<>>
    /\ disp = NoDisp
    /\ ops = <<>>

(* The engine runs with an idle event registry and an idle codec *)
AuxIdle ==
    /\ event_handlers = <<>>
    /\ dispatching = NoDispatch
    /\ reg_op = NoCall
    /\ codec = CodecIdle

Init == EngineInit /\ AuxIdle

---------------------------------------------------------------------------
(* The main task: MaxClient.start() *)

(* Variant: a connect() that restarts the counter at 1 *)
ConnectOpenResetSeq ==
    /\ pc = "connecting"
    /\ conn < MaxConn
    /\ seq < MaxSeq
    /\ sock' = "open"
    /\ connected' = TRUE
    /\ conn' = conn + 1
    /\ seq' = 1
    /\ trace' = [trace EXCEPT ![Main] =
                   <<SendEntry("connect", [create_message(6, init_payload)
                                             EXCEPT !.seq = 1], TRUE)>>]
    /\ wire' = <<1>>
    /\ pc' = "init_sent"
    /\ UNCHANGED <<session, authVars, dm, ctx, arg, a_token, a_fut, m_exc,
                   listenVars, rcvd, acked>>
    /\ disp' = NoDisp /\ ops' = <<>>
    /\ UNCHANGED auxVars

(* Variant: a connect() whose first frame on the opened transport is the   *)
(* token-auth frame and not the device-init frame                           *)
ConnectOpenTokenFirst ==
    /\ pc = "connecting"
    /\ conn < MaxConn
    /\ seq < MaxSeq
    /\ sock' = "open"
    /\ connected' = TRUE
    /\ conn' = conn + 1
    /\ seq' = create_message(19, auth_token_payload(session.token, FALSE,
                                                    DEFAULT_CHATS_COUNT)).seq
    /\ trace' = [trace EXCEPT ![Main] =
                   <<SendEntry("connect",
                               create_message(19,
                                   auth_token_payload(session.token, FALSE,
                                                      DEFAULT_CHATS_COUNT)),
                               TRUE)>>]
    /\ wire' = <<seq + 1>>
    /\ pc' = "init_sent"
    /\ UNCHANGED <<session, authVars, dm, ctx, arg, a_token, a_fut, m_exc,
                   listenVars, rcvd, acked>>
    /\ disp' = NoDisp /\ ops' = <<>>
    /\ UNCHANGED auxVars

(* MaxConnection.connect(): the transport opened; _initialize() hands the   *)
(* device-init frame (opcode 6) to it, without a suspension in between.     *)
ConnectOpen ==
    /\ pc = "connecting"
    /\ conn < MaxConn
    /\ seq < MaxSeq
    /\ sock' = "open"
    /\ connected' = TRUE
    /\ conn' = conn + 1
    /\ seq' = create_message(6, init_payload).seq
    /\ trace' = [trace EXCEPT ![Main] =
                   <<SendEntry("connect", create_message(6, init_payload), TRUE)>>]
    /\ wire' = <<create_message(6, init_payload).seq>>
    /\ pc' = "init_sent"
    /\ UNCHANGED <<session, authVars, dm, ctx, arg, a_token, a_fut, m_exc,
                   listenVars, rcvd, acked>>
    /\ disp' = NoDisp /\ ops' = <<>>
    /\ UNCHANGED auxVars

(* MaxConnection.connect(): the transport opened, and the peer closed it    *)
(* before _initialize() handed over the device-init frame: send() marks the *)
(* transport lost and raises ConnectionError out of connect(), before a     *)
(* listen task is created.  It leaves start(); _reconnect() catches it.     *)
ConnectInitFails ==
    /\ pc = "connecting"
    /\ conn < MaxConn
    /\ seq < MaxSeq
    /\ sock' = "closed"
    /\ connected' = FALSE
    /\ conn' = conn + 1
    /\ seq' = create_message(6, init_payload).seq
    /\ trace' = [trace EXCEPT ![Main] =
                   <<SendEntry("connect", create_message(6, init_payload), FALSE)>>]
    /\ wire' = <<>>
    /\ IF ctx = "start"
         THEN pc' = "failed" /\ m_exc' = "ConnectionError"
         ELSE pc' = "supervise" /\ m_exc' = m_exc
    /\ UNCHANGED <<session, authVars, dm, ctx, arg, a_token, a_fut,
                   listenVars, rcvd, acked>>
    /\ disp' = NoDisp /\ ops' = <<>>
    /\ UNCHANGED auxVars

(* Variant: a _reconnect() that lets the failure of connect() through *)
ConnectFailRaises ==
    /\ pc = "connecting"
    /\ pc' = "failed" /\ m_exc' = "ConnectionError"
    /\ UNCHANGED <<session, connVars, authVars, dm, ctx, arg, a_token, a_fut,
                   listenVars, rcvd, acked, ghostVars>>
    /\ disp' = NoDisp /\ ops' = <<>>
    /\ UNCHANGED auxVars

(* WebSocketConnection.connect() raised ConnectionError: it leaves start(), *)
(* and _reconnect() catches it and sleeps SYNC_DELAY.                       *)
ConnectFail ==
    /\ pc = "connecting"
    /\ IF ctx = "start"
         THEN pc' = "failed" /\ m_exc' = "ConnectionError"
         ELSE pc' = "supervise" /\ m_exc' = m_exc
    /\ UNCHANGED <<session, connVars, authVars, dm, ctx, arg, a_token, a_fut,
                   listenVars, rcvd, acked, ghostVars>>
    /\ disp' = NoDisp /\ ops' = <<>>
    /\ UNCHANGED auxVars

(* connect(): asyncio.create_task(self._listen()) *)
CreateListenTask == lpc' = [lpc EXCEPT ![conn] = "recv"]

(* _sync_after_auth(), from its first send (stage 1) or its second (stage 2);*)
(* a failed send is caught there and start() returns.                       *)
contact_ids == dm.user \/ dm.chat0

SyncFrom(stage) ==
    IF stage = 1 /\ dm.chat0
      THEN /\ Transmit(Main, <<>>, <<>>, "sync", 48, get_payload)
           /\ pc' = IF SendOk THEN "sync_chats_sent" ELSE "supervise"
      ELSE IF contact_ids
        THEN /\ Transmit(Main, <<>>, <<>>, "sync", 32, get_payload)
             /\ pc' = IF SendOk THEN "sync_contacts_sent" ELSE "supervise"
        ELSE /\ pc' = "supervise"
             /\ trace' = [trace EXCEPT ![Main] = <<>>]
             /\ UNCHANGED <<seq, connected, wire>>

(* authenticate(), token path, lines 34-37: the token is read and the task  *)
(* sleeps AUTH_DELAY.                                                       *)
AuthenticateToken ==
    /\ pc = "init_sent" /\ ctx = "start"
    /\ session.token # None
    /\ CreateListenTask
    /\ a_token' = session.token
    /\ pc' = "auth_sleep"
    /\ trace' = [trace EXCEPT ![Main] = <<>>]
    /\ UNCHANGED <<session, connVars, authVars, dm, ctx, arg, a_fut, m_exc,
                   l_fut, l_frame, l_exc, rcvd, acked, wire>>
    /\ disp' = NoDisp /\ ops' = <<>>
    /\ UNCHANGED auxVars

(* Variant: a token path that reads the store again after the sleep *)
AuthenticateTokenSendStored ==
    /\ pc = "auth_sleep"
    /\ Transmit(Main, trace[Main], <<>>, "authenticate", 19,
                auth_token_payload(session.token, FALSE, DEFAULT_CHATS_COUNT))
    /\ IF SendOk
         THEN pc' = "auth_token_sent" /\ m_exc' = m_exc
         ELSE pc' = "failed" /\ m_exc' = "ConnectionError"
    /\ UNCHANGED <<session, sock, conn, authVars, dm, ctx, arg, a_token, a_fut,
                   listenVars, rcvd, acked>>
    /\ disp' = NoDisp /\ ops' = <<>>
    /\ UNCHANGED auxVars

(* authenticate(), token path, line 38 *)
AuthenticateTokenSend ==
    /\ pc = "auth_sleep"
    /\ Transmit(Main, trace[Main], <<>>, "authenticate", 19,
                auth_token_payload(a_token, FALSE, DEFAULT_CHATS_COUNT))
    /\ IF SendOk
         THEN pc' = "auth_token_sent" /\ m_exc' = m_exc
         ELSE pc' = "failed" /\ m_exc' = "ConnectionError"
    /\ UNCHANGED <<session, sock, conn, authVars, dm, ctx, arg, a_token, a_fut,
                   listenVars, rcvd, acked>>
    /\ disp' = NoDisp /\ ops' = <<>>
    /\ UNCHANGED auxVars

(* authenticate(), lines 40-41 and 61-62: a fresh future is put in the slot *)
(* and awaited.                                                             *)
AuthenticateAwait ==
    /\ pc \in {"auth_token_sent", "auth_events_sent"}
    /\ futures' = Append(futures, "pending")
    /\ auth_future' = NewFuture
    /\ a_fut' = NewFuture
    /\ pc' = "auth_wait"
    /\ UNCHANGED <<session, connVars, phone_, code_callback, dm, ctx, arg,
                   a_token, m_exc, listenVars, rcvd, acked, ghostVars>>
    /\ disp' = NoDisp /\ ops' = <<>>
    /\ UNCHANGED auxVars

(* Variant: a phone path that sends before it stores the phone *)
AuthenticatePhoneSendFirst ==
    /\ pc = "init_sent" /\ ctx = "start"
    /\ session.token = None /\ arg.phone # None
    /\ CreateListenTask
    /\ phone_' = arg.phone
    /\ session' = [session EXCEPT !.phone = arg.phone]
    /\ code_callback' = arg.code_callback
    /\ seq < MaxSeq
    /\ seq' = create_message(17, auth_start_payload(arg.phone)).seq
    /\ trace' = [trace EXCEPT ![Main] =
          <<SendEntry("authenticate",
                      create_message(17, auth_start_payload(arg.phone)), SendOk),
            SetEntry("authenticate", "phone", arg.phone),
            SaveEntry("authenticate")>>]
    /\ wire' = IF SendOk THEN Append(wire, seq + 1) ELSE wire
    /\ connected' = SendOk
    /\ IF SendOk
         THEN pc' = "auth_start_sent" /\ m_exc' = m_exc
         ELSE pc' = "failed" /\ m_exc' = "ConnectionError"
    /\ UNCHANGED <<sock, conn, auth_future, futures, dm, ctx, arg, a_token, a_fut,
                   l_fut, l_frame, l_exc, rcvd, acked>>
    /\ disp' = NoDisp /\ ops' = <<>>
    /\ UNCHANGED auxVars

(* authenticate(), phone path, lines 44-50: the phone is stored and saved,  *)
(* then the start-auth frame (opcode 17) is sent.                           *)
AuthenticatePhone ==
    /\ pc = "init_sent" /\ ctx = "start"
    /\ session.token = None /\ arg.phone # None
    /\ CreateListenTask
    /\ phone_' = arg.phone
    /\ session' = [session EXCEPT !.phone = arg.phone]
    /\ code_callback' = arg.code_callback
    /\ Transmit(Main, <<>>,
                <<SetEntry("authenticate", "phone", arg.phone),
                  SaveEntry("authenticate")>>,
                "authenticate", 17, auth_start_payload(arg.phone))
    /\ IF SendOk
         THEN pc' = "auth_start_sent" /\ m_exc' = m_exc
         ELSE pc' = "failed" /\ m_exc' = "ConnectionError"
    /\ UNCHANGED <<sock, conn, auth_future, futures, dm, ctx, arg, a_token, a_fut,
                   l_fut, l_frame, l_exc, rcvd, acked>>
    /\ disp' = NoDisp
    /\ \E saved \in BOOLEAN : ops' = <<SaveOutcome("authenticate", saved)>>
    /\ UNCHANGED auxVars

(* Variant: a phone path without the telemetry frame *)
AuthenticateEventsSkipped ==
    /\ pc = "auth_start_sent"
    /\ pc' = "auth_events_sent"
    /\ UNCHANGED <<session, connVars, authVars, dm, ctx, arg, a_token, a_fut,
                   m_exc, listenVars, rcvd, acked, ghostVars>>
    /\ disp' = NoDisp /\ ops' = <<>>
    /\ UNCHANGED auxVars

(* authenticate(), phone path, lines 54-58: send_events() puts the two      *)
(* navigation events into one frame of opcode 5.                            *)
AuthenticateEvents ==
    /\ pc = "auth_start_sent"
    /\ Transmit(Main, trace[Main], <<>>, "authenticate", 5,
                events_payload(navigation_events))
    /\ IF SendOk
         THEN pc' = "auth_events_sent" /\ m_exc' = m_exc
         ELSE pc' = "failed" /\ m_exc' = "ConnectionError"
    /\ UNCHANGED <<session, sock, conn, authVars, dm, ctx, arg, a_token, a_fut,
                   listenVars, rcvd, acked>>
    /\ disp' = NoDisp /\ ops' = <<>>
    /\ UNCHANGED auxVars

(* authenticate() with neither a token nor a phone returns at once, and     *)
(* start() goes on to _sync_after_auth().                                   *)
AuthenticateNone ==
    /\ pc = "init_sent" /\ ctx = "start"
    /\ session.token = None /\ arg.phone = None
    /\ CreateListenTask
    /\ SyncFrom(1)
    /\ UNCHANGED <<session, sock, conn, authVars, dm, ctx, arg, a_token, a_fut,
                   m_exc, l_fut, l_frame, l_exc, rcvd, acked>>
    /\ disp' = NoDisp /\ ops' = <<>>
    /\ UNCHANGED auxVars

(* `await self._auth_future` returns: start() goes on to _sync_after_auth() *)
AuthenticateReturn ==
    /\ pc = "auth_wait"
    /\ futures[a_fut] = "result"
    /\ SyncFrom(1)
    /\ acked' = FALSE
    /\ UNCHANGED <<session, sock, conn, authVars, dm, ctx, arg, a_token, a_fut,
                   m_exc, listenVars, rcvd>>
    /\ disp' = NoDisp /\ ops' = <<>>
    /\ UNCHANGED auxVars

(* `await self._auth_future` raises the future's exception out of start()   *)
AuthenticateRaise ==
    /\ pc = "auth_wait"
    /\ futures[a_fut] \in {"exception", "cancelled"}
    /\ pc' = "failed"
    /\ m_exc' = IF futures[a_fut] = "exception" THEN "AuthError" ELSE "CancelledError"
    /\ acked' = FALSE
    /\ UNCHANGED <<session, connVars, authVars, dm, ctx, arg, a_token, a_fut,
                   listenVars, rcvd, ghostVars>>
    /\ disp' = NoDisp /\ ops' = <<>>
    /\ UNCHANGED auxVars

(* _sync_after_auth() resumes from a send *)
SyncResume ==
    /\ pc \in {"sync_chats_sent", "sync_contacts_sent"}
    /\ IF pc = "sync_chats_sent"
         THEN SyncFrom(2)
         ELSE /\ pc' = "supervise"
              /\ trace' = [trace EXCEPT ![Main] = <<>>]
              /\ UNCHANGED <<seq, connected, wire>>
    /\ UNCHANGED <<session, sock, conn, authVars, dm, ctx, arg, a_token, a_fut,
                   m_exc, listenVars, rcvd, acked>>
    /\ disp' = NoDisp /\ ops' = <<>>
    /\ UNCHANGED auxVars

---------------------------------------------------------------------------
(* The main task: MaxClient.run_until_disconnected() and _reconnect() *)

(* run_until_disconnected(): is_connected() is false, so _reconnect() is    *)
(* entered and sleeps RECONNECT_DELAY.                                      *)
Supervise ==
    /\ pc = "supervise"
    /\ ~connected
    /\ pc' = "reconnect_sleep"
    /\ UNCHANGED <<session, connVars, authVars, dm, ctx, arg, a_token, a_fut,
                   m_exc, listenVars, rcvd, acked, ghostVars>>
    /\ disp' = NoDisp /\ ops' = <<>>
    /\ UNCHANGED auxVars

(* _reconnect() wakes and calls connect() on the same MaxConnection.  The   *)
(* flag was false for all of RECONNECT_DELAY (2 s): a listen task waiting   *)
(* in its 1 s receive has seen that and left its loop by now, and one that  *)
(* was suspended in a send has resumed.  Only the AUTH_TIMEOUT (60 s) wait  *)
(* of the auth_error handler outlasts the delay.                            *)
ReconnectWake ==
    /\ pc = "reconnect_sleep"
    /\ \A l \in Listeners : lpc[l] \in {"none", "ended", "h_reauth_wait"}
    /\ pc' = "connecting"
    /\ ctx' = "reconnect"
    /\ UNCHANGED <<session, connVars, authVars, dm, arg, a_token, a_fut, m_exc,
                   listenVars, rcvd, acked, ghostVars>>
    /\ disp' = NoDisp /\ ops' = <<>>
    /\ UNCHANGED auxVars

(* _reconnect(), lines 234-237: connect() returned; the cached token is read*)
ReconnectReplay ==
    /\ pc = "init_sent" /\ ctx = "reconnect"
    /\ CreateListenTask
    /\ a_token' = session.token
    /\ pc' = IF session.token # None THEN "reconnect_auth_sleep" ELSE "supervise"
    /\ trace' = [trace EXCEPT ![Main] = <<>>]
    /\ UNCHANGED <<session, connVars, authVars, dm, ctx, arg, a_fut, m_exc,
                   l_fut, l_frame, l_exc, rcvd, acked, wire>>
    /\ disp' = NoDisp /\ ops' = <<>>
    /\ UNCHANGED auxVars

(* Variant: a replay that logs in interactively *)
ReconnectTokenSendInteractive ==
    /\ pc = "reconnect_auth_sleep"
    /\ Transmit(Main, <<>>, <<>>, "reconnect", 19,
                auth_token_payload(a_token, TRUE, DEFAULT_CHATS_COUNT))
    /\ pc' = IF SendOk THEN "reconnect_token_sent" ELSE "supervise"
    /\ UNCHANGED <<session, sock, conn, authVars, dm, ctx, arg, a_token, a_fut,
                   m_exc, listenVars, rcvd, acked>>
    /\ disp' = NoDisp /\ ops' = <<>>
    /\ UNCHANGED auxVars

(* _reconnect(), line 239; a failure is caught and followed by SYNC_DELAY   *)
ReconnectTokenSend ==
    /\ pc = "reconnect_auth_sleep"
    /\ Transmit(Main, <<>>, <<>>, "reconnect", 19,
                auth_token_payload(a_token, FALSE, DEFAULT_CHATS_COUNT))
    /\ pc' = IF SendOk THEN "reconnect_token_sent" ELSE "supervise"
    /\ UNCHANGED <<session, sock, conn, authVars, dm, ctx, arg, a_token, a_fut,
                   m_exc, listenVars, rcvd, acked>>
    /\ disp' = NoDisp /\ ops' = <<>>
    /\ UNCHANGED auxVars

ReconnectDone ==
    /\ pc = "reconnect_token_sent"
    /\ pc' = "supervise"
    /\ trace' = [trace EXCEPT ![Main] = <<>>]
    /\ UNCHANGED <<session, connVars, authVars, dm, ctx, arg, a_token, a_fut,
                   m_exc, listenVars, rcvd, acked, wire>>
    /\ disp' = NoDisp /\ ops' = <<>>
    /\ UNCHANGED auxVars

(* run_until_disconnected(), lines 225-226, or the application itself: the  *)
(* client is told to stop and calls disconnect(), which runs                *)
(* WebSocketConnection.close(); the application may call it again.          *)
Disconnect ==
    /\ pc \in {"supervise", "disconnected"}
    /\ sock' = IF sock = "open" THEN "closed" ELSE sock
    /\ connected' = FALSE
    /\ pc' = "disconnected"
    /\ UNCHANGED <<session, seq, conn, authVars, dm, ctx, arg, a_token, a_fut,
                   m_exc, listenVars, rcvd, acked, ghostVars>>
    /\ disp' = NoDisp /\ ops' = <<>>
    /\ UNCHANGED auxVars

---------------------------------------------------------------------------
(* The listen tasks: MaxConnection._listen() *)

(* receive() returned frame f to listen task l, which dispatches it.  Once  *)
(* an exception has left start() the program is over.                       *)
Receives(l, f, event) ==
    /\ lpc[l] = "recv"
    /\ pc # "failed"
    /\ connected /\ sock = "open"
    /\ rcvd < MaxInbound
    /\ f \in InFrames
    /\ EventName(f.cmd, f.opcode) = event
    /\ rcvd' = rcvd + 1
    /\ disp' = [by |-> l, decoded |-> TRUE, frame |-> Header(f), event |-> event,
                bad |-> Bad(l)]
    /\ acked' = (acked \/ (event = "auth_success" /\ ctx = "start" /\
                            pc \in {"auth_token_sent", "auth_events_sent",
                                    "auth_wait"}))
    /\ UNCHANGED auxVars

(* the handlers returned: back at `while self.is_connected()` *)
Returns(l) ==
    /\ lpc' = [lpc EXCEPT ![l] = IF connected THEN "recv" ELSE "ended"]
    /\ l_frame' = [l_frame EXCEPT ![l] = NoInFrame]
    /\ trace' = [trace EXCEPT ![l] = <<>>]

(* a handler's send: the task suspends in it, or ConnectionError goes up    *)
(* to _listen, which breaks out of its loop.                                *)
AfterSend(l, f, at) ==
    /\ lpc' = [lpc EXCEPT ![l] = IF SendOk THEN at ELSE "ended"]
    /\ l_frame' = [l_frame EXCEPT ![l] = f]
    /\ l_exc' = [l_exc EXCEPT ![l] = IF SendOk THEN @ ELSE "ConnectionError"]

(* Variant: a handler that resolves the pending operation before it stores *)
(* the token                                                               *)
OnAuthSuccessResolveFirst(l, f) ==
    /\ Receives(l, f, "auth_success")
    /\ session' = IF f.payload.token # None
                    THEN [session EXCEPT !.token = f.payload.token]
                    ELSE session
    /\ futures' = Resolve("result")
    /\ ops' = ResolveOps("on_auth_success", "result", f.payload)
              \o (IF f.payload.token # None
                    THEN <<SetEntry("on_auth_success", "token", f.payload.token),
                           SaveEntry("on_auth_success")>>
                    ELSE <<>>)
    /\ dm' = [user |-> dm.user \/ f.payload.profile,
              chat0 |-> dm.chat0 \/ f.payload.chat0]
    /\ Returns(l)
    /\ UNCHANGED <<connVars, auth_future, phone_, code_callback, mainVars,
                   l_fut, l_exc, wire>>

(* Variant: a save() that lets its OSError out: the handler ends at the    *)
(* save and the error goes up to the listen loop                            *)
OnAuthSuccessSaveRaises(l, f) ==
    /\ Receives(l, f, "auth_success")
    /\ session' = IF f.payload.token # None
                    THEN [session EXCEPT !.token = f.payload.token]
                    ELSE session
    /\ \E saved \in BOOLEAN :
          IF f.payload.token # None /\ ~saved
            THEN /\ futures' = futures
                 /\ ops' = <<SetEntry("on_auth_success", "token", f.payload.token),
                             SaveOutcome("on_auth_success", FALSE)>>
                 /\ l_exc' = [l_exc EXCEPT ![l] = "OSError"]
                 /\ dm' = dm
            ELSE /\ futures' = Resolve("result")
                 /\ ops' = (IF f.payload.token # None
                              THEN <<SetEntry("on_auth_success", "token",
                                              f.payload.token),
                                     SaveOutcome("on_auth_success", TRUE)>>
                              ELSE <<>>)
                            \o ResolveOps("on_auth_success", "result", f.payload)
                 /\ l_exc' = l_exc
                 /\ dm' = [user |-> dm.user \/ f.payload.profile,
                           chat0 |-> dm.chat0 \/ f.payload.chat0]
    /\ Returns(l)
    /\ UNCHANGED <<connVars, auth_future, phone_, code_callback, mainVars,
                   l_fut, wire>>

(* AuthManager._on_auth_success, then MaxClient._on_auth_success *)
OnAuthSuccess(l, f) ==
    /\ Receives(l, f, "auth_success")
    /\ session' = IF f.payload.token # None
                    THEN [session EXCEPT !.token = f.payload.token]
                    ELSE session
    /\ futures' = Resolve("result")
    /\ \E saved \in BOOLEAN :
          ops' = (IF f.payload.token # None
                    THEN <<SetEntry("on_auth_success", "token", f.payload.token),
                           SaveOutcome("on_auth_success", saved)>>
                    ELSE <<>>)
                 \o ResolveOps("on_auth_success", "result", f.payload)
    /\ dm' = [user |-> dm.user \/ f.payload.profile,
              chat0 |-> dm.chat0 \/ f.payload.chat0]
    /\ Returns(l)
    /\ UNCHANGED <<connVars, auth_future, phone_, code_callback, mainVars,
                   l_fut, l_exc, wire>>

(* Variant: a handler that sends whatever the code provider returned *)
OnAuthCodeRequestedSendsEmpty(l, f, code) ==
    /\ Receives(l, f, "auth_code_requested")
    /\ code \in Codes
    /\ IF code_callback # None
         THEN /\ Transmit(l, <<>>, <<>>, "on_auth_code_requested", 18,
                          auth_code_payload(f.payload.token, code))
              /\ AfterSend(l, f, "h_sent")
         ELSE /\ Returns(l)
              /\ UNCHANGED <<seq, connected, wire, l_exc>>
    /\ ops' = IF code_callback # None
                THEN <<CallEntry("on_auth_code_requested", code)>>
                ELSE <<>>
    /\ UNCHANGED <<session, sock, conn, authVars, dm, mainVars, l_fut>>

(* AuthManager._on_auth_code_requested *)
OnAuthCodeRequested(l, f, code) ==
    /\ Receives(l, f, "auth_code_requested")
    /\ code \in Codes
    /\ IF code_callback # None /\ code # ""
         THEN /\ Transmit(l, <<>>, <<>>, "on_auth_code_requested", 18,
                          auth_code_payload(f.payload.token, code))
              /\ AfterSend(l, f, "h_sent")
         ELSE /\ Returns(l)
              /\ UNCHANGED <<seq, connected, wire, l_exc>>
    /\ ops' = IF code_callback # None
                THEN <<CallEntry("on_auth_code_requested", code)>>
                ELSE <<>>
    /\ UNCHANGED <<session, sock, conn, authVars, dm, mainVars, l_fut>>

(* Variant: a handler that sends the token without storing it *)
OnAuthCodeCheckedSendFirst(l, f) ==
    /\ Receives(l, f, "auth_code_checked")
    /\ IF f.payload.login_token # None
         THEN /\ Transmit(l, <<>>, <<>>, "on_auth_code_checked", 19,
                          auth_token_payload(f.payload.login_token, FALSE,
                                             DEFAULT_CHATS_COUNT))
              /\ AfterSend(l, f, "h_sent")
              /\ UNCHANGED session
         ELSE /\ Returns(l)
              /\ UNCHANGED <<session, seq, connected, wire, l_exc>>
    /\ ops' = <<>>
    /\ UNCHANGED <<sock, conn, authVars, dm, mainVars, l_fut>>

(* Variant: a handler that fails the pending operation when the payload   *)
(* carries no login token                                                   *)
OnAuthCodeCheckedFailsWithout(l, f) ==
    /\ Receives(l, f, "auth_code_checked")
    /\ IF f.payload.login_token # None
         THEN /\ session' = [session EXCEPT !.token = f.payload.login_token]
              /\ Transmit(l, <<>>,
                          <<SetEntry("on_auth_code_checked", "token",
                                     f.payload.login_token),
                            SaveEntry("on_auth_code_checked")>>,
                          "on_auth_code_checked", 19,
                          auth_token_payload(f.payload.login_token, FALSE,
                                             DEFAULT_CHATS_COUNT))
              /\ AfterSend(l, f, "h_sent")
              /\ futures' = futures
              /\ ops' = <<SaveEntry("on_auth_code_checked")>>
         ELSE /\ Returns(l)
              /\ futures' = Resolve("exception")
              /\ ops' = ResolveOps("on_auth_code_checked", "exception", None)
              /\ UNCHANGED <<session, seq, connected, wire, l_exc>>
    /\ UNCHANGED <<sock, conn, auth_future, phone_, code_callback, dm, mainVars,
                   l_fut>>

(* AuthManager._on_auth_code_checked *)
OnAuthCodeChecked(l, f) ==
    /\ Receives(l, f, "auth_code_checked")
    /\ IF f.payload.login_token # None
         THEN /\ session' = [session EXCEPT !.token = f.payload.login_token]
              /\ Transmit(l, <<>>,
                          <<SetEntry("on_auth_code_checked", "token",
                                     f.payload.login_token),
                            SaveEntry("on_auth_code_checked")>>,
                          "on_auth_code_checked", 19,
                          auth_token_payload(f.payload.login_token, FALSE,
                                             DEFAULT_CHATS_COUNT))
              /\ AfterSend(l, f, "h_sent")
         ELSE /\ Returns(l)
              /\ UNCHANGED <<session, seq, connected, wire, l_exc>>
    /\ \E saved \in BOOLEAN :
          ops' = IF f.payload.login_token # None
                   THEN <<SaveOutcome("on_auth_code_checked", saved)>>
                   ELSE <<>>
    /\ UNCHANGED <<sock, conn, authVars, dm, mainVars, l_fut>>

(* Variant: every auth_error that names an error counts as a rejected token *)
token_invalid_any(payload) == payload.error # None

(* AuthManager._on_auth_error, line 108 *)
token_invalid(payload) ==
    payload.error = "login.token" \/ payload.message = "FAIL_LOGIN_TOKEN"

(* AuthManager._on_auth_error, lines 108-115: the token is invalid and a    *)
(* phone is known: the token is cleared and the start-auth frame sent.      *)
OnAuthErrorReauth(l, f) ==
    /\ Receives(l, f, "auth_error")
    /\ token_invalid(f.payload)
    /\ phone_ # None
    /\ session' = [session EXCEPT !.token = None]
    /\ Transmit(l, <<>>,
                <<SetEntry("on_auth_error", "token", None),
                  SaveEntry("on_auth_error")>>,
                "on_auth_error", 17, auth_start_payload(phone_))
    /\ AfterSend(l, f, "h_reauth_start_sent")
    /\ \E saved \in BOOLEAN : ops' = <<SaveOutcome("on_auth_error", saved)>>
    /\ UNCHANGED <<sock, conn, authVars, dm, mainVars, l_fut>>

(* Variant: a handler that fails the operation and keeps the rejected token *)
OnAuthErrorFailKeepsToken(l, f) ==
    /\ Receives(l, f, "auth_error")
    /\ ~(token_invalid(f.payload) /\ phone_ # None)
    /\ session' = session
    /\ futures' = Resolve("exception")
    /\ ops' = IF token_invalid(f.payload)
                THEN ResolveOps("on_auth_error", "exception",
                                "Phone number not found")
                ELSE ResolveOps("on_auth_error", "exception", f.payload.message)
    /\ Returns(l)
    /\ UNCHANGED <<connVars, auth_future, phone_, code_callback, dm, mainVars,
                   l_fut, l_exc, wire>>

(* AuthManager._on_auth_error, lines 108-111 and 129-135: no phone is known,*)
(* or the error is another one: the pending operation is failed.            *)
OnAuthErrorFail(l, f) ==
    /\ Receives(l, f, "auth_error")
    /\ ~(token_invalid(f.payload) /\ phone_ # None)
    /\ session' = IF token_invalid(f.payload)
                    THEN [session EXCEPT !.token = None]
                    ELSE session
    /\ futures' = Resolve("exception")
    /\ \E saved \in BOOLEAN :
          ops' = IF token_invalid(f.payload)
                   THEN <<SetEntry("on_auth_error", "token", None),
                          SaveOutcome("on_auth_error", saved)>>
                        \o ResolveOps("on_auth_error", "exception",
                                      "Phone number not found")
                   ELSE ResolveOps("on_auth_error", "exception", f.payload.message)
    /\ Returns(l)
    /\ UNCHANGED <<connVars, auth_future, phone_, code_callback, dm, mainVars,
                   l_fut, l_exc, wire>>

(* Variant: a re-authentication without the telemetry frame *)
ReauthEventsSkipped(l) ==
    /\ lpc[l] = "h_reauth_start_sent"
    /\ lpc' = [lpc EXCEPT ![l] = "h_reauth_events_sent"]
    /\ UNCHANGED <<session, connVars, authVars, dm, mainVars, l_fut, l_frame,
                   l_exc, rcvd, acked, ghostVars>>
    /\ disp' = NoDisp /\ ops' = <<>>
    /\ UNCHANGED auxVars

(* AuthManager._on_auth_error, lines 117-121: send_events() puts the two    *)
(* navigation events into one frame of opcode 5.                            *)
ReauthEvents(l) ==
    /\ lpc[l] = "h_reauth_start_sent"
    /\ Transmit(l, trace[l], <<>>, "on_auth_error", 5,
                events_payload(navigation_events))
    /\ AfterSend(l, l_frame[l], "h_reauth_events_sent")
    /\ UNCHANGED <<session, sock, conn, authVars, dm, mainVars, l_fut, rcvd, acked>>
    /\ disp' = NoDisp /\ ops' = <<>>
    /\ UNCHANGED auxVars

(* AuthManager._on_auth_error, lines 123-125 *)
ReauthAwait(l) ==
    /\ lpc[l] = "h_reauth_events_sent"
    /\ futures' = Append(futures, "pending")
    /\ auth_future' = NewFuture
    /\ l_fut' = [l_fut EXCEPT ![l] = NewFuture]
    /\ lpc' = [lpc EXCEPT ![l] = "h_reauth_wait"]
    /\ UNCHANGED <<session, connVars, phone_, code_callback, dm, mainVars,
                   l_frame, l_exc, rcvd, acked, ghostVars>>
    /\ disp' = NoDisp /\ ops' = <<>>
    /\ UNCHANGED auxVars

(* wait_for() returned the result: "re-authorization successful" *)
ReauthResolved(l) ==
    /\ lpc[l] = "h_reauth_wait"
    /\ futures[l_fut[l]] = "result"
    /\ Returns(l)
    /\ UNCHANGED <<session, connVars, authVars, dm, mainVars, l_fut, l_exc,
                   rcvd, acked, wire>>
    /\ disp' = NoDisp /\ ops' = <<>>
    /\ UNCHANGED auxVars

(* wait_for() timed out after AUTH_TIMEOUT: it cancels the future, and the  *)
(* handler catches asyncio.TimeoutError.                                    *)
ReauthTimeout(l) ==
    /\ lpc[l] = "h_reauth_wait"
    /\ futures[l_fut[l]] = "pending"
    /\ futures' = [futures EXCEPT ![l_fut[l]] = "cancelled"]
    /\ Returns(l)
    /\ UNCHANGED <<session, connVars, auth_future, phone_, code_callback, dm,
                   mainVars, l_fut, l_exc, rcvd, acked, wire>>
    /\ disp' = NoDisp /\ ops' = <<>>
    /\ UNCHANGED auxVars

(* wait_for() raised the future's AuthError, which the handler does not     *)
(* catch; _listen catches it (`except Exception`) and continues.            *)
ReauthRaise(l) ==
    /\ lpc[l] = "h_reauth_wait"
    /\ futures[l_fut[l]] = "exception"
    /\ l_exc' = [l_exc EXCEPT ![l] = "AuthError"]
    /\ Returns(l)
    /\ UNCHANGED <<session, connVars, authVars, dm, mainVars, l_fut, rcvd, acked, wire>>
    /\ disp' = NoDisp /\ ops' = <<>>
    /\ UNCHANGED auxVars

(* AuthManager._on_auth_code_error *)
OnAuthCodeError(l, f) ==
    /\ Receives(l, f, "auth_code_error")
    /\ futures' = Resolve("exception")
    /\ ops' = ResolveOps("on_auth_code_error", "exception", f.payload.message)
    /\ Returns(l)
    /\ UNCHANGED <<session, connVars, auth_future, phone_, code_callback, dm,
                   mainVars, l_fut, l_exc, wire>>

(* Variant: a dispatch that fails the pending operation on any other frame *)
OnOtherFails(l, f) ==
    /\ \E e \in {None, "new_message", "message_sent", "contacts_update",
                  "chats_update"} : Receives(l, f, e)
    /\ futures' = Resolve("exception")
    /\ ops' = <<>>
    /\ Returns(l)
    /\ UNCHANGED <<session, connVars, auth_future, phone_, code_callback, dm,
                   mainVars, l_fut, l_exc, wire>>

(* a frame without an AuthManager handler: no handler at all, or a handler  *)
(* of MaxClient that works on the data manager only (the frames modelled    *)
(* carry empty chat, contact and message lists)                             *)
OnOther(l, f) ==
    /\ \E e \in {None, "new_message", "message_sent", "contacts_update",
                  "chats_update"} : Receives(l, f, e)
    /\ ops' = <<>>
    /\ Returns(l)
    /\ UNCHANGED <<session, connVars, authVars, dm, mainVars, l_fut, l_exc, wire>>

(* Variant: an undecodable message ends the loop *)
ReceiveMalformedBreaks(l) ==
    /\ lpc[l] = "recv"
    /\ pc # "failed"
    /\ connected /\ sock = "open"
    /\ rcvd < MaxInbound
    /\ rcvd' = rcvd + 1
    /\ disp' = [by |-> l, decoded |-> FALSE, frame |-> NoInFrame,
                event |-> None, bad |-> Bad(l) + 1]
    /\ ops' = <<>>
    /\ UNCHANGED auxVars
    /\ lpc' = [lpc EXCEPT ![l] = "ended"]
    /\ UNCHANGED <<session, connVars, authVars, dm, mainVars, l_fut, l_frame,
                   l_exc, acked, ghostVars>>

(* _listen, lines 325-335: json.loads rejects the message; the loop goes on *)
ReceiveMalformed(l) ==
    /\ lpc[l] = "recv"
    /\ pc # "failed"
    /\ connected /\ sock = "open"
    /\ rcvd < MaxInbound
    /\ rcvd' = rcvd + 1
    /\ disp' = [by |-> l, decoded |-> FALSE, frame |-> NoInFrame,
                event |-> None, bad |-> Bad(l) + 1]
    /\ ops' = <<>>
    /\ UNCHANGED auxVars
    /\ UNCHANGED <<session, connVars, authVars, dm, mainVars, listenVars, acked,
                   ghostVars>>

(* _listen, lines 325 and 336-337: nothing arrived within the 1 s of        *)
(* wait_for(): asyncio.TimeoutError, and the loop goes on.                  *)
ReceiveTimeout(l) ==
    /\ lpc[l] = "recv"
    /\ pc # "failed"
    /\ connected /\ sock = "open"
    /\ disp' = [by |-> l, decoded |-> FALSE, frame |-> NoInFrame,
                event |-> "timeout", bad |-> Bad(l)]
    /\ ops' = <<>>
    /\ UNCHANGED <<session, connVars, authVars, dm, mainVars, listenVars, rcvd,
                   acked, ghostVars>>
    /\ UNCHANGED auxVars

(* a handler resumes from its last send and returns *)
HandlerResume(l) ==
    /\ lpc[l] = "h_sent"
    /\ Returns(l)
    /\ UNCHANGED <<session, connVars, authVars, dm, mainVars, l_fut, l_exc,
                   rcvd, acked, wire>>
    /\ disp' = NoDisp /\ ops' = <<>>
    /\ UNCHANGED auxVars

(* Variant: a loop that ends on a closed socket and leaves the flag set *)
ListenClosedKeepsFlag(l) ==
    /\ lpc[l] = "recv"
    /\ ~(connected /\ sock = "open")
    /\ lpc' = [lpc EXCEPT ![l] = "ended"]
    /\ UNCHANGED <<session, connVars, authVars, dm, mainVars, l_fut,
                   l_frame, l_exc, rcvd, acked, ghostVars>>
    /\ disp' = NoDisp /\ ops' = <<>>
    /\ UNCHANGED auxVars

(* _listen, lines 323 and 338-340: the flag is false at the loop test, or   *)
(* receive() raised ConnectionError (the socket is closed): the loop ends.  *)
ListenClosed(l) ==
    /\ lpc[l] = "recv"
    /\ ~(connected /\ sock = "open")
    /\ connected' = FALSE
    /\ lpc' = [lpc EXCEPT ![l] = "ended"]
    /\ UNCHANGED <<session, seq, sock, conn, authVars, dm, mainVars, l_fut,
                   l_frame, l_exc, rcvd, acked, ghostVars>>
    /\ disp' = NoDisp /\ ops' = <<>>
    /\ UNCHANGED auxVars

(* the server, or the network, closes the socket *)
ServerClose ==
    /\ sock = "open"
    /\ sock' = "closed"
    /\ UNCHANGED <<session, seq, connected, conn, authVars, dm, mainVars,
                   listenVars, rcvd, acked, ghostVars>>
    /\ disp' = NoDisp /\ ops' = <<>>
    /\ UNCHANGED auxVars

---------------------------------------------------------------------------
Next ==
    \/ ConnectOpen
    \/ ConnectInitFails
    \/ ConnectFail
    \/ AuthenticateToken
    \/ AuthenticateTokenSend
    \/ AuthenticatePhone
    \/ AuthenticateEvents
    \/ AuthenticateAwait
    \/ AuthenticateNone
    \/ AuthenticateReturn
    \/ AuthenticateRaise
    \/ SyncResume
    \/ Supervise
    \/ ReconnectWake
    \/ ReconnectReplay
    \/ ReconnectTokenSend
    \/ ReconnectDone
    \/ Disconnect
    \/ \E l \in Listeners, f \in InFrames : OnAuthSuccess(l, f)
    \/ \E l \in Listeners, f \in InFrames, code \in Codes : OnAuthCodeRequested(l, f, code)
    \/ \E l \in Listeners, f \in InFrames : OnAuthCodeChecked(l, f)
    \/ \E l \in Listeners, f \in InFrames : OnAuthErrorReauth(l, f)
    \/ \E l \in Listeners, f \in InFrames : OnAuthErrorFail(l, f)
    \/ \E l \in Listeners, f \in InFrames : OnAuthCodeError(l, f)
    \/ \E l \in Listeners, f \in InFrames : OnOther(l, f)
    \/ \E l \in Listeners : ReceiveMalformed(l)
    \/ \E l \in Listeners : ReceiveTimeout(l)
    \/ \E l \in Listeners : ReauthEvents(l)
    \/ \E l \in Listeners : ReauthAwait(l)
    \/ \E l \in Listeners : ReauthResolved(l)
    \/ \E l \in Listeners : ReauthTimeout(l)
    \/ \E l \in Listeners : ReauthRaise(l)
    \/ \E l \in Listeners : HandlerResume(l)
    \/ \E l \in Listeners : ListenClosed(l)
    \/ ServerClose

Spec == Init /\ [][Next]_vars

---------------------------------------------------------------------------
(* The event registry: EventDispatcher and call_handlers.  The application  *)
(* adds and removes handlers and the client dispatches events; a handler    *)
(* that is a coroutine function is awaited and may suspend, and the         *)
(* application may call the registry while it is suspended.                 *)

MaxHandlers == 3    \* handlers registered for one event
MaxCalls == 4       \* calls made on the registry in one run

Events == {"new_message", "ready"}
Handlers == {"on_update", "log"}
Coroutines == {"on_update"}     \* asyncio.iscoroutinefunction(handler)

handlers_of(event_name) ==
    IF event_name \in DOMAIN event_handlers THEN event_handlers[event_name]
    ELSE <<>>

(* Variant: a remove that deletes every occurrence of the handler *)
remove_all(list, handler) ==
    LET Other(x) == x # handler IN SelectSeq(list, Other)

(* list.remove(handler): the first occurrence goes *)
remove(list, handler) ==
    LET i == CHOOSE i \in 1..Len(list) :
                 list[i] = handler /\ \A j \in 1..(i - 1) : list[j] # handler
    IN SubSeq(list, 1, i - 1) \o SubSeq(list, i + 1, Len(list))

Calls(op, event_name, handler) ==
    /\ reg_op.n < MaxCalls
    /\ reg_op' = [n |-> reg_op.n + 1, op |-> op, event |-> event_name,
                  handler |-> handler]

(* a change of the list that a dispatch in progress iterates over *)
Touches(event_name) ==
    dispatching' =
        IF dispatching.state = "running" /\ dispatching.event = event_name
          THEN [dispatching EXCEPT !.mutated = TRUE]
          ELSE dispatching

(* EventDispatcher.add_event_handler, lines 20-24 *)
add_event_handler(event_name, handler) ==
    /\ Calls("add", event_name, handler)
    /\ Len(handlers_of(event_name)) < MaxHandlers
    /\ event_handlers' =
          [e \in DOMAIN event_handlers \cup {event_name} |->
              IF e = event_name THEN Append(handlers_of(event_name), handler)
              ELSE event_handlers[e]]
    /\ Touches(event_name)
    /\ UNCHANGED <<engineVars, codec>>

(* EventDispatcher.remove_event_handler, lines 26-30 *)
remove_event_handler(event_name, handler) ==
    /\ Calls("remove", event_name, handler)
    /\ IF /\ event_name \in DOMAIN event_handlers
          /\ \E i \in 1..Len(event_handlers[event_name]) :
                event_handlers[event_name][i] = handler
         THEN /\ event_handlers' =
                    [event_handlers EXCEPT ![event_name] = remove(@, handler)]
              /\ Touches(event_name)
         ELSE UNCHANGED <<event_handlers, dispatching>>
    /\ UNCHANGED <<engineVars, codec>>

(* EventDispatcher.dispatch_event, lines 32-35: call_handlers gets the list *)
(* itself, not a copy                                                       *)
dispatch_event(event_name) ==
    /\ Calls("dispatch", event_name, None)
    /\ dispatching.state # "running"
    /\ dispatching' =
          [NoDispatch EXCEPT
              !.state = IF event_name \in DOMAIN event_handlers
                          THEN "running" ELSE "returned",
              !.event = event_name,
              !.at_start = handlers_of(event_name)]
    /\ UNCHANGED <<event_handlers, engineVars, codec>>

(* call_handlers, lines 83-87: the for loop takes the next handler of the   *)
(* list and calls it; a plain function has returned when the call is over   *)
CallHandler ==
    /\ dispatching.state = "running" /\ dispatching.running = None
    /\ dispatching.idx < Len(event_handlers[dispatching.event])
    /\ LET h == event_handlers[dispatching.event][dispatching.idx + 1]
       IN dispatching' =
            [dispatching EXCEPT
                !.idx = @ + 1,
                !.running = IF h \in Coroutines THEN h ELSE None,
                !.calls = IF h \in Coroutines
                            THEN Append(@, <<"start", h>>)
                            ELSE @ \o << <<"start", h>>, <<"end", h>> >>]
    /\ UNCHANGED <<event_handlers, reg_op, engineVars, codec>>

(* the awaited handler returns *)
HandlerReturns ==
    /\ dispatching.state = "running" /\ dispatching.running # None
    /\ dispatching' =
          [dispatching EXCEPT !.running = None,
                              !.calls = Append(@, <<"end", dispatching.running>>)]
    /\ UNCHANGED <<event_handlers, reg_op, engineVars, codec>>

(* the for loop is at the end of the list: dispatch_event returns *)
DispatchReturns ==
    /\ dispatching.state = "running" /\ dispatching.running = None
    /\ dispatching.idx >= Len(event_handlers[dispatching.event])
    /\ dispatching' = [dispatching EXCEPT !.state = "returned"]
    /\ UNCHANGED <<event_handlers, reg_op, engineVars, codec>>

RegistryNext ==
    \/ \E e \in Events, h \in Handlers : add_event_handler(e, h)
    \/ \E e \in Events, h \in Handlers : remove_event_handler(e, h)
    \/ \E e \in Events : dispatch_event(e)
    \/ CallHandler
    \/ HandlerReturns
    \/ DispatchReturns

RegistrySpec == Init /\ [][RegistryNext]_vars

---------------------------------------------------------------------------
(* The codec: one frame of the sender goes through _create_message and      *)
(* json.dumps, and comes back through json.loads and _handle_message.       *)

(* _create_message, called by a send_* method *)
CodecBuild(opcode, payload) ==
    /\ codec.stage = "idle"
    /\ seq < MaxSeq
    /\ seq' = create_message(opcode, NoPayload).seq
    /\ codec' = [CodecIdle EXCEPT !.stage = "built", !.opcode = opcode,
                                  !.payload = payload,
                                  !.message = message_dict_of(opcode, payload)]
    /\ UNCHANGED <<session, connected, sock, conn, authVars, dm, mainVars,
                   listenVars, rcvd, acked, ghostVars, disp, ops,
                   event_handlers, dispatching, reg_op>>

(* _send, line 290: data = json.dumps(message) *)
CodecDumps ==
    /\ codec.stage = "built"
    /\ codec' = [codec EXCEPT !.stage = "dumped", !.data = json_dumps(codec.message)]
    /\ UNCHANGED <<engineVars, event_handlers, dispatching, reg_op>>

(* _listen, line 328: message = json.loads(data) *)
CodecLoads ==
    /\ codec.stage = "dumped"
    /\ codec' = [codec EXCEPT !.stage = "loaded", !.parsed = json_loads(codec.data)]
    /\ UNCHANGED <<engineVars, event_handlers, dispatching, reg_op>>

(* _handle_message, lines 347-352 *)
CodecHandle ==
    /\ codec.stage = "loaded"
    /\ codec' =
          [codec EXCEPT
              !.stage = "handled",
              !.out = IF codec.parsed.t # "dict" \/ Len(codec.parsed.v) = 0
                        THEN NoOut
                        ELSE [cmd |-> dict_get(codec.parsed, "cmd", PyNone),
                              opcode |-> dict_get(codec.parsed, "opcode", PyNone),
                              payload |-> dict_get(codec.parsed, "payload",
                                                   PyDict(<<>>))]]
    /\ UNCHANGED <<engineVars, event_handlers, dispatching, reg_op>>

(* the next frame *)
CodecNextFrame ==
    /\ codec.stage = "handled"
    /\ codec' = CodecIdle
    /\ UNCHANGED <<engineVars, event_handlers, dispatching, reg_op>>

CodecNext ==
    \/ \E fr \in OutFrames : CodecBuild(fr[1], fr[2])
    \/ CodecDumps
    \/ CodecLoads
    \/ CodecHandle
    \/ CodecNextFrame

CodecSpec == Init /\ [][CodecNext]_vars

---------------------------------------------------------------------------
(* Properties *)

IsSend(e) == e.kind = "send"
Sends(tr) == SelectSeq(tr, IsSend)
Opcodes(tr) == [i \in 1..Len(Sends(tr)) |-> Sends(tr)[i].frame.opcode]
IsFrame(e, opcode, payload) ==
    /\ e.kind = "send"
    /\ e.frame.cmd = 0
    /\ e.frame.opcode = opcode
    /\ e.frame.payload = payload

(* authenticate() runs its token path / its phone path *)
TokenPath == ctx = "start" /\ a_token # None
PhonePath == ctx = "start" /\ a_token = None /\ arg.phone # None
Handles(l, event) == EventName(l_frame[l].cmd, l_frame[l].opcode) = event

(* C1: with a cached token, what authenticate() has handed to the transport *)
(* when it creates and awaits its pending operation is exactly one frame:   *)
(* the token-auth frame (opcode 19) with interactive = false and the token  *)
(* read from the store; no start-auth and no telemetry frame; with or       *)
(* without a phone argument.                                                *)
C1_TokenFastPathFrames ==
    (TokenPath /\ pc \in {"auth_token_sent", "auth_wait"}) =>
        /\ Len(Sends(trace[Main])) = 1
        /\ IsFrame(Sends(trace[Main])[1], 19,
                   auth_token_payload(a_token, FALSE, DEFAULT_CHATS_COUNT))
        /\ Sends(trace[Main])[1].by = "authenticate"

C1_Witness == TokenPath /\ pc = "auth_wait" /\ arg.phone # None

(* C2: once authenticate() has sent its token-auth frame, an auth_success   *)
(* dispatched afterwards completes it: authenticate() is never waiting on   *)
(* an unresolved pending operation after such a dispatch.                   *)
C2_AuthSuccessCompletes ==
    ~(TokenPath /\ pc = "auth_wait" /\ acked /\ futures[a_fut] = "pending")

(* C3: every start-auth frame (opcode 17) authenticate() hands to the       *)
(* transport comes after the store was given that phone and saved.          *)
C3_PhonePersistedBeforeStartAuth ==
    \A i \in 1..Len(trace[Main]) :
        (trace[Main][i].kind = "send" /\ trace[Main][i].by = "authenticate"
            /\ trace[Main][i].frame.opcode = 17) =>
        /\ session.phone = trace[Main][i].frame.payload.phone
        /\ \E j \in 1..i, k \in 1..i :
            /\ j < k /\ k < i
            /\ trace[Main][j] = SetEntry("authenticate", "phone",
                                         trace[Main][i].frame.payload.phone)
            /\ trace[Main][k] = SaveEntry("authenticate")

C3_Witness == PhonePath /\ pc = "auth_start_sent"

C5_CodeCheckedStoresThenSendsToken ==
    \A l \in Listeners :
        (lpc[l] \in {"h_sent", "ended"} /\ Handles(l, "auth_code_checked")
            /\ l_frame[l].payload.login_token # None) =>
        /\ Len(trace[l]) = 3
        /\ trace[l][1] = SetEntry("on_auth_code_checked", "token",
                                  l_frame[l].payload.login_token)
        /\ trace[l][2] = SaveEntry("on_auth_code_checked")
        /\ IsFrame(trace[l][3], 19,
                   auth_token_payload(l_frame[l].payload.login_token, FALSE,
                                      DEFAULT_CHATS_COUNT))

C5_Witness ==
    \E l \in Listeners :
        /\ lpc[l] = "h_sent" /\ Handles(l, "auth_code_checked")
        /\ session.token = l_frame[l].payload.login_token

C7_ReauthWaitNeverRaises == \A l \in Listeners : l_exc[l] # "AuthError"

(* C8: when authenticate(phone=P) ran its token path and the server rejects *)
(* the token (the handler clears it), the pending operation is not failed   *)
(* and a start-auth frame for P is handed to the transport.                 *)
C8_PhoneArgumentCountsAsKnown ==
    [][(TokenPath /\ pc = "auth_wait" /\ arg.phone # None
            /\ session.token # None /\ session'.token = None) =>
        /\ futures' = futures
        /\ \E l \in Listeners :
              /\ Len(trace'[l]) >= 3
              /\ IsFrame(trace'[l][3], 17, auth_start_payload(arg.phone))]_vars

(* C9, as claimed: in every connection lifetime the frames on the wire      *)
(* carry seq 1, 2, 3, ...                                                   *)
C9_EveryLifetimeStartsAtOne == \A i \in 1..Len(wire) : wire[i] = i

(* C9, amended: within a connection lifetime each frame's seq is the        *)
(* previous one plus 1; the first frame of the first lifetime has seq 1,    *)
(* and a later lifetime of the same MaxConnection goes on from the counter  *)
(* instead of starting at 1 again.                                          *)
C9_ConsecutiveWithinLifetime ==
    /\ \A i \in 1..(Len(wire) - 1) : wire[i + 1] = wire[i] + 1
    /\ wire # <<>> =>
          /\ wire[Len(wire)] <= seq
          /\ conn = 1 => wire[1] = 1
          /\ conn > 1 => wire[1] > 1

C9_Witness == conn = 2 /\ Len(wire) >= 2

(* C10: the sequence counter never decreases, across sends, connection      *)
(* losses and reconnects, and the device-init frame of every connect()      *)
(* carries the previous counter plus 1.                                     *)
C10_CounterNeverReset ==
    [][/\ seq' >= seq
       /\ (pc = "connecting" /\ pc' = "init_sent") =>
            /\ seq' = seq + 1
            /\ trace'[Main] = <<SendEntry("connect",
                    [cmd |-> 0, seq |-> seq + 1, opcode |-> 6,
                     payload |-> init_payload], TRUE)>>
            /\ wire' = <<seq + 1>>]_vars

C10_Witness == conn = 2 /\ pc = "init_sent" /\ seq >= 3 /\ wire = <<seq>>

(* The routing table of the protocol: the nine (cmd, opcode) pairs that     *)
(* carry an event, and the event of each                                    *)
RoutedPairs ==
    {<<1, 19>>, <<1, 17>>, <<1, 18>>, <<1, 64>>, <<1, 32>>, <<1, 48>>,
     <<3, 19>>, <<3, 17>>, <<0, 128>>}
Routed(cmd, opcode) ==
    CASE <<cmd, opcode>> = <<1, 19>> -> "auth_success"
      [] <<cmd, opcode>> = <<1, 17>> -> "auth_code_requested"
      [] <<cmd, opcode>> = <<1, 18>> -> "auth_code_checked"
      [] <<cmd, opcode>> = <<1, 64>> -> "message_sent"
      [] <<cmd, opcode>> = <<1, 32>> -> "contacts_update"
      [] <<cmd, opcode>> = <<1, 48>> -> "chats_update"
      [] <<cmd, opcode>> = <<3, 19>> -> "auth_error"
      [] <<cmd, opcode>> = <<3, 17>> -> "auth_code_error"
      [] <<cmd, opcode>> = <<0, 128>> -> "new_message"
      [] OTHER -> None
Dispatched == disp.by # 0 /\ disp.decoded
Handling == {"h_sent", "h_reauth_start_sent", "h_reauth_events_sent",
             "h_reauth_wait"}

(* C11: the dispatch of a frame whose (cmd, opcode) is not one of the nine  *)
(* routed pairs runs no handler, raises nothing into the listen loop, and   *)
(* leaves the store, the pending operations, the sequence counter and the   *)
(* listen task's position as they were; nothing is stored or sent.          *)
C11_UnroutedFrameIsNoOp ==
    [][(disp'.by # 0 /\ disp'.decoded
            /\ <<disp'.frame.cmd, disp'.frame.opcode>> \notin RoutedPairs) =>
        /\ disp'.event = None
        /\ UNCHANGED <<session, auth_future, futures, seq, l_exc, lpc, trace,
                       wire>>]_vars

C11_Witness ==
    /\ Dispatched
    /\ <<disp.frame.cmd, disp.frame.opcode>> \notin RoutedPairs
    /\ Pending(auth_future)
    /\ session.token # None

(* C12: every (cmd, opcode) pair has the event name the routing table gives *)
(* it and no other: the nine routed pairs their nine names, every other     *)
(* pair none; and the handlers that run for a dispatched frame are those of *)
(* that one name.                                                           *)
C12_RoutingTable ==
    /\ \A cmd \in 0..4, opcode \in {5, 6, 17, 18, 19, 32, 48, 64, 128, 129} :
          EventName(cmd, opcode) = Routed(cmd, opcode)
    /\ Dispatched => disp.event = Routed(disp.frame.cmd, disp.frame.opcode)

C12_Witness ==
    /\ Dispatched /\ disp.event = "auth_code_error"
    /\ auth_future # 0 /\ futures[auth_future] = "exception"

(* C13: a message that does not decode leaves the listen task in its loop,  *)
(* with the transport as it was, and the next frame can be received and     *)
(* dispatched, however many undecodable messages came before.               *)
C13_MalformedKeepsLoop ==
    (disp.by # 0 /\ ~disp.decoded) =>
        /\ lpc[disp.by] = "recv"
        /\ connected /\ sock = "open"
        /\ trace[disp.by] = <<>>
        /\ (rcvd < MaxInbound /\ pc # "failed") =>
              ENABLED (\E f \in InFrames : OnAuthSuccess(disp.by, f))

C13_Witness == Dispatched /\ disp.bad >= 2 /\ disp.event = "auth_success"

(* C14: when authenticate() has returned, an auth_success had resolved the  *)
(* pending operation it waited on.                                          *)
C14_ReturnsOnlyAfterSuccess ==
    (ctx = "start" /\ pc \in {"sync_chats_sent", "sync_contacts_sent",
                              "supervise"}) =>
        (a_fut # 0 /\ futures[a_fut] = "result")

(* C15: an auth_code_error, or an auth_error that does not start a          *)
(* re-authentication, handled while authenticate() waits on its pending     *)
(* operation, fails that operation with AuthError.                          *)
C15_AuthFailureDelivered ==
    [][(pc = "auth_wait" /\ Pending(a_fut) /\ disp'.by # 0
            /\ \/ disp'.event = "auth_code_error"
               \/ /\ disp'.event = "auth_error"
                  /\ ~(token_invalid(disp'.frame.payload) /\ phone_ # None)) =>
        futures'[a_fut] = "exception"]_vars

(* C16: at most one pending operation is unresolved at any time. *)
C16_OnePendingOperation ==
    Cardinality({i \in 1..Len(futures) : futures[i] = "pending"}) <= 1

(* C17: a pending operation that is done (resolved, failed or cancelled)    *)
(* is never set again, whatever events arrive afterwards.                   *)
C17_ResolvedAtMostOnce ==
    [][\A i \in 1..Len(futures) :
          futures[i] # "pending" =>
              (i <= Len(futures') /\ futures'[i] = futures[i])]_vars

C17_Witness ==
    /\ Dispatched
    /\ disp.event \in {"auth_success", "auth_error", "auth_code_error"}
    /\ auth_future # 0 /\ futures[auth_future] = "cancelled"

(* C18: at most one inbound frame is being dispatched at any time, and no   *)
(* frame is received from the transport while the dispatch of an earlier    *)
(* one is unfinished.                                                       *)
C18_OneDispatchAtATime ==
    /\ Cardinality({l \in Listeners : lpc[l] \in Handling}) <= 1
    /\ disp.by # 0 =>
          \A k \in Listeners \ {disp.by} : lpc[k] \notin Handling

(* C19: at most one listen task is active at any time. *)
C19_OneListenTask ==
    Cardinality({l \in Listeners : lpc[l] \notin {"none", "ended"}}) <= 1

---------------------------------------------------------------------------
(* The transport, the listen loop and the reconnect supervisor *)

(* the transport refuses: the flag is false or the socket is closed *)
Refuses == ~(connected /\ sock = "open")

(* C21: a listen task whose receive finds the connection closed leaves its  *)
(* loop, and the flag is false from then on until connect() opens the       *)
(* transport again; a receive that times out leaves the task in its loop    *)
(* and the transport as it was.                                             *)
C21_ClosedEndsLoopTimeoutDoesNot ==
    [][/\ \A l \in Listeners :
            /\ (lpc[l] = "recv" /\ Refuses) =>
                   (disp'.by # l /\ lpc'[l] \in {"recv", "ended"})
            /\ (lpc[l] = "recv" /\ lpc'[l] = "ended") => ~connected'
       /\ (~connected /\ connected') =>
             (pc = "connecting" /\ pc' = "init_sent" /\ sock' = "open" /\
              conn' = conn + 1)
       /\ disp'.event = "timeout" =>
             (lpc' = lpc /\ lpc[disp'.by] = "recv" /\
              connected' /\ sock' = "open")]_vars

C21_Witness ==
    \E l \in Listeners :
        lpc[l] = "ended" /\ l_exc[l] = None /\ ~connected /\ sock = "closed" /\
        pc \notin {"connecting", "failed", "disconnected"}

(* C22: once connect() has returned inside _reconnect(), the token is read  *)
(* from the store; if there is one, the next thing _reconnect() does is one *)
(* send of a token-auth frame (opcode 19) that is not interactive and       *)
(* carries that token, and it returns after it; if there is none it returns *)
(* without sending.  No frame of _reconnect() is a start-auth frame.        *)
C22_ReconnectReplaysStoredToken ==
    [][(ctx = "reconnect" /\ pc' # pc) =>
         /\ pc = "init_sent" =>
               /\ a_token' = session.token
               /\ seq' = seq /\ trace'[Main] = <<>>
               /\ pc' = IF session.token # None
                          THEN "reconnect_auth_sleep" ELSE "supervise"
         /\ pc = "reconnect_auth_sleep" =>
               /\ a_token # None
               /\ seq' = seq + 1
               /\ Len(trace'[Main]) = 1
               /\ IsFrame(trace'[Main][1], 19,
                          auth_token_payload(a_token, FALSE, DEFAULT_CHATS_COUNT))
               /\ pc' \in {"reconnect_token_sent", "supervise"}
         /\ pc = "reconnect_token_sent" =>
               (seq' = seq /\ pc' = "supervise")
         /\ trace'[Main] # trace[Main] =>
               \A i \in DOMAIN trace'[Main] :
                   /\ trace'[Main][i].by \in {"connect", "reconnect"}
                   /\ trace'[Main][i].frame.opcode \in {6, 19}]_vars

C22_Witness ==
    /\ pc = "reconnect_token_sent" /\ conn = 2
    /\ Len(wire) = 2
    /\ IsFrame(trace[Main][1], 19,
               auth_token_payload(session.token, FALSE, DEFAULT_CHATS_COUNT))

(* The scheduler runs every task that can take a step, and the transport    *)
(* can be opened: an attempt to open it that is repeated for ever succeeds  *)
(* at some time.                                                            *)
FairSpec == Spec /\ WF_vars(Next) /\ SF_vars(ConnectOpen)

(* C23: a failure inside _reconnect() (the transport does not open, the     *)
(* device-init send fails, the token-auth send fails) never leaves it: no   *)
(* exception reaches the caller, and control is back in the supervisor loop *)
(* with the flag false, so that the loop calls _reconnect() again.  Under   *)
(* FairSpec a lost connection is re-established, unless the client is told  *)
(* to disconnect or the run has used up its sequence numbers or its         *)
(* transport opens.                                                         *)
C23_ReconnectFailuresCaught ==
    /\ [][(ctx = "reconnect" /\ pc' # pc /\
           pc \in {"connecting", "init_sent", "reconnect_auth_sleep",
                   "reconnect_token_sent"}) =>
            /\ m_exc' = None /\ pc' # "failed"
            /\ ((pc = "connecting" /\ ~connected') \/
                (pc = "reconnect_auth_sleep" /\ Refuses)) =>
                  (pc' = "supervise" /\ ~connected')]_vars
    /\ (pc = "supervise" /\ ~connected /\ conn < MaxConn) ~>
          (connected \/ pc = "disconnected" \/ seq = MaxSeq \/ conn = MaxConn)

C23_Witness ==
    /\ ctx = "reconnect" /\ pc = "init_sent" /\ connected /\ conn = 2
    /\ \E l \in Listeners : lpc[l] = "ended" /\ l_exc[l] = "ConnectionError"

(* C24: a send or a receive on a transport that refuses raises              *)
(* ConnectionError (it ends the listen task that made it, or leaves the     *)
(* operation of the main task), puts nothing on the wire and leaves the     *)
(* flag false; after close() the flag is false, however often it is called. *)
C24_ClosedTransportRefuses ==
    [][/\ (seq' # seq /\ pc # "connecting" /\ Refuses) =>
             /\ wire' = wire /\ ~connected' /\ sock' = sock
             /\ \E t \in Tasks :
                   /\ trace'[t] # trace[t] /\ trace'[t] # <<>>
                   /\ IsSend(trace'[t][Len(trace'[t])])
                   /\ ~trace'[t][Len(trace'[t])].ok
                   /\ IF t = Main
                        THEN /\ pc' \in {"failed", "supervise"}
                             /\ pc' = "failed" => m_exc' = "ConnectionError"
                        ELSE lpc'[t] = "ended" /\ l_exc'[t] = "ConnectionError"
       /\ \A l \in Listeners :
             (lpc[l] = "recv" /\ Refuses /\ lpc'[l] # "recv") =>
                 (lpc'[l] = "ended" /\ ~connected' /\ wire' = wire /\ seq' = seq)
       /\ pc' = "disconnected" => (~connected' /\ sock' # "open")]_vars

C24_Witness ==
    /\ pc = "disconnected" /\ ~connected /\ sock = "closed"
    /\ \E l \in Listeners :
          /\ lpc[l] = "ended" /\ l_exc[l] = "ConnectionError"
          /\ trace[l] # <<>> /\ ~trace[l][Len(trace[l])].ok

---------------------------------------------------------------------------
(* The handlers of the authentication events *)

(* the step sends nothing: no sequence number is used, nothing is put on    *)
(* the wire, and no task's record gains an entry                            *)
NoSend ==
    /\ seq' = seq /\ wire' = wire
    /\ \A t \in Tasks : trace'[t] = trace[t] \/ trace'[t] = <<>>

(* C27: on auth_success a token carried by the payload is set in the store  *)
(* and saved before the pending operation is resolved; a pending operation  *)
(* is resolved with the payload of the event; without a token in the        *)
(* payload the store stays as it was.                                       *)
C27_AuthSuccessStoresThenResolves ==
    [][disp'.event = "auth_success" =>
         LET tok == disp'.frame.payload.token
             stored == IF tok # None
                         THEN <<SetEntry("on_auth_success", "token", tok),
                                SaveEntry("on_auth_success")>>
                         ELSE <<>>
             n == Len(stored)
         IN /\ session' = IF tok # None THEN [session EXCEPT !.token = tok]
                                         ELSE session
            /\ Len(ops') >= n
            /\ \A i \in 1..n : [ops'[i] EXCEPT !.ok = TRUE] = stored[i]
            /\ IF Pending(auth_future)
                 THEN /\ Len(ops') = n + 1
                      /\ ops'[n + 1].kind = "resolve"
                      /\ ops'[n + 1].key = "result"
                      /\ Header([cmd |-> 1, opcode |-> 19,
                                 payload |-> ops'[n + 1].value]) = disp'.frame
                      /\ futures' = [futures EXCEPT ![auth_future] = "result"]
                 ELSE Len(ops') = n /\ futures' = futures]_vars

C27_Witness ==
    /\ disp.event = "auth_success" /\ disp.frame.payload.token = "T2"
    /\ Len(ops) = 3 /\ ops[3].kind = "resolve"
    /\ session.token = "T2"
    /\ a_fut # 0 /\ futures[a_fut] = "result"

(* C28: an auth_error that rejects the token (error "login.token" or        *)
(* message "FAIL_LOGIN_TOKEN") while no phone is known sets the stored      *)
(* token to none and saves, then fails a pending operation with AuthError,  *)
(* and sends no frame.                                                      *)
C28_TokenRejectedWithoutPhone ==
    [][(/\ disp'.event = "auth_error"
        /\ (disp'.frame.payload.error = "login.token" \/
            disp'.frame.payload.message = "FAIL_LOGIN_TOKEN")
        /\ phone_ = None) =>
         /\ session' = [session EXCEPT !.token = None]
         /\ Len(ops') >= 2
         /\ ops'[1] = SetEntry("on_auth_error", "token", None)
         /\ [ops'[2] EXCEPT !.ok = TRUE] = SaveEntry("on_auth_error")
         /\ IF Pending(auth_future)
              THEN /\ Len(ops') = 3
                   /\ ops'[3] = ResolveEntry("on_auth_error", "exception",
                                              "Phone number not found")
                   /\ futures' = [futures EXCEPT ![auth_future] = "exception"]
              ELSE Len(ops') = 2 /\ futures' = futures
         /\ NoSend
         /\ lpc'[disp'.by] \in {"recv", "ended"}]_vars

C28_Witness ==
    /\ disp.event = "auth_error" /\ disp.frame.payload.error = "login.token"
    /\ phone_ = None /\ Len(ops) = 3
    /\ session.token = None /\ a_token = "T1"
    /\ pc = "auth_wait" /\ futures[a_fut] = "exception"

(* C29: an auth_error that does not reject the token fails a pending        *)
(* operation with an AuthError made of the message of the event, leaves the *)
(* store (token and phone) as it was, and sends no frame.                   *)
C29_OtherAuthErrorFailsOperation ==
    [][(/\ disp'.event = "auth_error"
        /\ disp'.frame.payload.error # "login.token"
        /\ disp'.frame.payload.message # "FAIL_LOGIN_TOKEN") =>
         /\ session' = session
         /\ IF Pending(auth_future)
              THEN /\ ops' = <<ResolveEntry("on_auth_error", "exception",
                                            disp'.frame.payload.message)>>
                   /\ futures' = [futures EXCEPT ![auth_future] = "exception"]
              ELSE ops' = <<>> /\ futures' = futures
         /\ NoSend
         /\ lpc'[disp'.by] \in {"recv", "ended"}]_vars

C29_Witness ==
    /\ disp.event = "auth_error" /\ disp.frame.payload.error = "e"
    /\ disp.frame.payload.message = "m"
    /\ Len(ops) = 1 /\ ops[1].value = "m"
    /\ session.token = "T1"
    /\ pc = "auth_wait" /\ futures[a_fut] = "exception"

(* C30: an auth_code_error dispatched once the phone path of authenticate() *)
(* has sent its start-auth frame fails the operation that this call of      *)
(* authenticate() waits on, so that the call raises AuthError.              *)
C30_CodeErrorFailsAttempt ==
    [][(/\ PhonePath
        /\ pc \in {"auth_start_sent", "auth_events_sent", "auth_wait"}
        /\ disp'.event = "auth_code_error") =>
         (a_fut' # 0 /\ futures'[a_fut'] = "exception")]_vars

---------------------------------------------------------------------------
(* The event registry and the codec *)

Count(list, handler) ==
    Cardinality({i \in 1..Len(list) : list[i] = handler})
Without(list, handler) ==
    LET Other(x) == x # handler IN SelectSeq(list, Other)

(* C25: a dispatch during which the registry is not changed invokes the     *)
(* handlers registered for the event when it began, in the order in which   *)
(* they were added and as often as they were added, each one returning      *)
(* before the next is called.  add appends the handler to the list of the   *)
(* event; remove takes exactly one occurrence of the handler out of it and  *)
(* leaves the other handlers in their order; removing a handler or an event *)
(* that is not registered changes nothing.                                  *)
C25_HandlerRegistry ==
    /\ [](dispatching.state = "returned" /\ ~dispatching.mutated =>
            /\ Len(dispatching.calls) = 2 * Len(dispatching.at_start)
            /\ \A i \in 1..Len(dispatching.at_start) :
                  /\ dispatching.calls[2 * i - 1] = <<"start", dispatching.at_start[i]>>
                  /\ dispatching.calls[2 * i] = <<"end", dispatching.at_start[i]>>)
    /\ [][reg_op'.n = reg_op.n + 1 =>
            LET e == reg_op'.event
                h == reg_op'.handler
                old == IF e \in DOMAIN event_handlers THEN event_handlers[e]
                       ELSE <<>>
            IN CASE reg_op'.op = "add" ->
                      /\ DOMAIN event_handlers' = DOMAIN event_handlers \cup {e}
                      /\ event_handlers'[e] = Append(old, h)
                      /\ \A x \in DOMAIN event_handlers \ {e} :
                            event_handlers'[x] = event_handlers[x]
                 [] reg_op'.op = "remove" ->
                      IF Count(old, h) > 0
                        THEN /\ DOMAIN event_handlers' = DOMAIN event_handlers
                             /\ Len(event_handlers'[e]) = Len(old) - 1
                             /\ Count(event_handlers'[e], h) = Count(old, h) - 1
                             /\ Without(event_handlers'[e], h) = Without(old, h)
                             /\ \A x \in DOMAIN event_handlers \ {e} :
                                   event_handlers'[x] = event_handlers[x]
                        ELSE event_handlers' = event_handlers
                 [] OTHER -> event_handlers' = event_handlers]_vars

C25_Witness ==
    /\ dispatching.state = "returned" /\ ~dispatching.mutated
    /\ dispatching.at_start = <<"on_update", "log", "on_update">>
    /\ Len(dispatching.calls) = 6

(* C26: a frame that the sender builds from an (opcode, payload) of         *)
(* OutFrames and serializes comes out of the receive path with the cmd,     *)
(* the opcode and the payload it was built with.                            *)
C26_FrameRoundTrip ==
    codec.stage = "handled" =>
        /\ codec.out.cmd = PyInt(0)
        /\ codec.out.opcode = PyInt(codec.opcode)
        /\ codec.out.payload = codec.payload

C26_Witness ==
    /\ codec.stage = "handled"
    /\ codec.opcode = 5
    /\ codec.out.payload = events_dict(1500)
    /\ seq = 2

----------------------------------------------------------------------------
(* The interactive handlers, persistence and the sequence counter *)

(* C31: on auth_code_requested a supplied code provider is called once; a   *)
(* non-empty code makes the handler hand exactly one verify-code frame      *)
(* (opcode 18) to the transport, carrying that code and the token of the    *)
(* event payload; an empty code, or no provider, sends nothing; in every    *)
(* case the pending operation is left as it was.                            *)
C31_CodeRequestedSendsOneVerifyFrame ==
    [][disp'.event = "auth_code_requested" =>
         /\ IF code_callback = None
              THEN ops' = <<>> /\ NoSend
              ELSE /\ Len(ops') = 1
                   /\ ops'[1].kind = "call"
                   /\ IF ops'[1].value # ""
                        THEN /\ Len(trace'[disp'.by]) = 1
                             /\ IsFrame(trace'[disp'.by][1], 18,
                                        auth_code_payload(
                                            disp'.frame.payload.token,
                                            ops'[1].value))
                             /\ trace'[disp'.by][1].frame.seq = seq + 1
                             /\ wire' = Append(wire, seq + 1)
                        ELSE NoSend
         /\ futures' = futures
         /\ auth_future' = auth_future
         /\ session' = session]_vars

C31_Witness ==
    /\ disp.event = "auth_code_requested"
    /\ Len(ops) = 1 /\ ops[1].kind = "call" /\ ops[1].value = "C1"
    /\ Len(trace[disp.by]) = 1
    /\ IsFrame(trace[disp.by][1], 18, auth_code_payload("V1", "C1"))
    /\ Pending(auth_future)


(* C32: an auth_code_checked whose payload has no tokenAttrs.LOGIN.token    *)
(* makes the handler do nothing: nothing is sent, the store is as it was,   *)
(* the pending operation is neither resolved nor failed, and the listen     *)
(* task goes back to its receive.                                           *)
C32_CodeCheckedWithoutTokenIsNoOp ==
    [][(disp'.event = "auth_code_checked"
            /\ disp'.frame.payload.login_token = None) =>
         /\ NoSend
         /\ ops' = <<>>
         /\ session' = session
         /\ futures' = futures
         /\ auth_future' = auth_future
         /\ l_exc' = l_exc
         /\ lpc'[disp'.by] = "recv"]_vars

C32_Witness ==
    /\ disp.event = "auth_code_checked"
    /\ disp.frame.payload.login_token = None
    /\ Pending(auth_future)
    /\ lpc[disp.by] = "recv"
    /\ ops = <<>>


(* the step made a save() that could not write the session file *)
SaveFailed(by) ==
    \E i \in 1..Len(ops') :
        ops'[i].kind = "save" /\ ops'[i].by = by /\ ~ops'[i].ok

(* C33: a save() that cannot write the session file raises nothing: the     *)
(* auth_success handler still resolves a pending operation with the result  *)
(* and the listen task goes on, authenticate() still hands the start-auth   *)
(* frame (opcode 17) to the transport after the save, and no step with a    *)
(* failed save raises anything but the ConnectionError of its own send.     *)
C33_SaveFailureIsSwallowed ==
    [][/\ SaveFailed("on_auth_success") =>
            /\ l_exc' = l_exc
            /\ lpc'[disp'.by] = "recv"
            /\ Pending(auth_future) =>
                   /\ futures' = [futures EXCEPT ![auth_future] = "result"]
                   /\ ops'[Len(ops')].kind = "resolve"
       /\ SaveFailed("authenticate") =>
            /\ Len(trace'[Main]) = 3
            /\ trace'[Main][2].kind = "save"
            /\ IsFrame(trace'[Main][3], 17, auth_start_payload(arg.phone))
            /\ SendOk => (pc' = "auth_start_sent" /\ m_exc' = m_exc
                          /\ wire' = Append(wire, seq + 1))
       /\ (\E i \in 1..Len(ops') : ops'[i].kind = "save" /\ ~ops'[i].ok) =>
            /\ m_exc' \in {m_exc, "ConnectionError"}
            /\ \A l \in Listeners : l_exc'[l] \in {l_exc[l], "ConnectionError"}
            /\ (m_exc' # m_exc \/ l_exc' # l_exc) => ~SendOk]_vars

C33_Witness ==
    /\ disp.event = "auth_success"
    /\ Len(ops) = 3
    /\ ops[2].kind = "save" /\ ~ops[2].ok
    /\ ops[3].kind = "resolve"
    /\ a_fut # 0 /\ futures[a_fut] = "result"
    /\ session.token = "T2"


(* the listen task runs the auth_error handler, which waits on the pending  *)
(* operation of its re-authentication                                       *)
ReauthWaiting(l) == lpc[l] = "h_reauth_wait" /\ Pending(l_fut[l])

AuthenticateBlocked == pc = "auth_wait" /\ Pending(a_fut)

(* C35: when the listen loop has ended (the connection is lost) while       *)
(* authenticate() waits on its pending operation, the operation is          *)
(* eventually resolved or failed, so that authenticate() leaves its wait.   *)
C35_LostConnectionUnblocksAuthenticate ==
    (AuthenticateBlocked /\ ~connected
        /\ \A l \in Listeners : lpc[l] \in {"none", "ended"})
      ~> ~AuthenticateBlocked


(* C36: the step in which start() leaves authenticate() normally and goes   *)
(* on to the post-auth sync is taken only after an auth_success was         *)
(* dispatched for the attempt, and only after an auth frame followed the    *)
(* device-init frame on the connection.                                     *)
C36_SyncOnlyAfterAuthSuccess ==
    [][(ctx = "start" /\ pc \in {"init_sent", "auth_wait"}
            /\ pc' \in {"sync_chats_sent", "sync_contacts_sent", "supervise"}) =>
         /\ acked
         /\ Len(wire) >= 2]_vars


(* the positions at which a task is suspended in the transport send of a    *)
(* send_* operation                                                         *)
MainInSend == {"auth_token_sent", "auth_start_sent", "auth_events_sent",
               "sync_chats_sent", "sync_contacts_sent", "reconnect_token_sent"}
HandlerInSend == {"h_sent", "h_reauth_start_sent", "h_reauth_events_sent"}
LastSeq(tr) == tr[Len(tr)].frame.seq

(* C37: a send_* operation returns the seq that was stamped on the frame    *)
(* it sent itself: when a task resumes from the transport send, the value   *)
(* it returns is the seq of the last frame in its own record, whatever the  *)
(* other tasks sent in between.                                             *)
C37_SendReturnsOwnSeq ==
    [][/\ (pc \in MainInSend /\ pc' # pc /\ Len(trace[Main]) > 0) =>
            send_return = LastSeq(trace[Main])
       /\ \A l \in Listeners :
            (lpc[l] \in HandlerInSend /\ lpc'[l] # lpc[l] /\ Len(trace[l]) > 0) =>
                send_return = LastSeq(trace[l])]_vars


(* the step made task t attempt a send that the transport refused *)
FailedSend(t) ==
    /\ trace'[t] # trace[t]
    /\ Len(trace'[t]) > 0
    /\ trace'[t][Len(trace'[t])].kind = "send"
    /\ ~trace'[t][Len(trace'[t])].ok

(* C38: a send that fails because the transport is not open, or because the *)
(* connection is closed, uses no sequence number: after it the outbound     *)
(* counter is what it was before the call.                                  *)
C38_FailedSendKeepsSeq ==
    [][\A t \in Tasks : FailedSend(t) => seq' = seq]_vars


(* the listen tasks whose loop has not ended *)
ActiveListeners == {l \in Listeners : lpc[l] \notin {"none", "ended"}}

(* C39: whenever is_connected() is true and no connect() is under way,      *)
(* exactly one listen loop is running on the connection.                    *)
C39_OneLoopPerOpenTransport ==
    (connected /\ pc \notin {"connecting", "init_sent"}) =>
        Cardinality(ActiveListeners) = 1


(* C40: the first frame put on every opened connection is the device-init   *)
(* frame (opcode 6), sent by connect() while the listen task of that        *)
(* connection is not yet started; every other frame the transport accepts   *)
(* follows it on the same connection, and a listen task is started only on  *)
(* a connection that has carried its device-init frame.                     *)
C40_DeviceInitFirst ==
    [][/\ (conn' # conn /\ wire' # <<>>) =>
            /\ Len(wire') = 1
            /\ Len(trace'[Main]) = 1
            /\ IsFrame(trace'[Main][1], 6, init_payload)
            /\ trace'[Main][1].by = "connect"
            /\ trace'[Main][1].frame.seq = wire'[1]
            /\ lpc'[conn'] = "none"
       /\ (conn' = conn /\ wire' # wire) =>
            /\ Len(wire) >= 1
            /\ wire' = Append(wire, seq + 1)
            /\ \A t \in Tasks :
                  (trace'[t] # trace[t] /\ Len(trace'[t]) > 0) =>
                      trace'[t][Len(trace'[t])].frame.opcode # 6
       /\ \A l \in Listeners :
            (lpc[l] = "none" /\ lpc'[l] # "none") =>
                (l = conn /\ conn' = conn /\ Len(wire) >= 1)]_vars

C40_Witness ==
    /\ conn = 2 /\ ctx = "reconnect" /\ pc = "init_sent"
    /\ Len(wire) = 1 /\ wire[1] > 1
    /\ Len(trace[Main]) = 1
    /\ IsFrame(trace[Main][1], 6, init_payload)
    /\ trace[Main][1].frame.seq = wire[1]
    /\ lpc[2] = "none"

====
